---- MODULE Spec2Model ----
(***************************************************************************)
(* Match lifecycle of the padel league backend: Report, Confirm, Reject    *)
(* and Dispute handlers running against the record store.  Every store     *)
(* read and every store write of a handler is one atomic step; two         *)
(* requests of different callers may be in flight at the same time.        *)
(***************************************************************************)
EXTENDS Integers, Sequences, FiniteSets, TLC

(* ---------------------------- bounds ----------------------------------- *)
Players == {"p1", "p2", "p3", "p4"}   \* joined players (record ids)
Procs == {1, 2}                       \* handler slots: requests in flight together
NoId == "none"                        \* a missing (falsy) id in a request body
NoReason == "undefined"               \* request body without a reason
MaxCalls == 4                         \* requests issued in one behaviour
MaxMatches == 1                       \* matches reported in one behaviour

\* set lists a Report may carry: <<p1, p2>> per set
ValidSets == << <<6, 4>>, <<4, 6>>, <<7, 5>> >>   \* pair 1 wins 2-1
SetLists ==
  { ValidSets,
    << <<4, 6>>, <<5, 7>> >>,                \* pair 2 wins 2-0
    << <<6, 0>>, <<0, 6>> >>,                \* 1-1, third set missing
    << <<6, 0>>, <<6, 1>>, <<6, 2>> >>,      \* decided after two sets
    << <<6, 5>>, <<6, 1>> >>,                \* invalid padel score
    << <<6, 0>> >> }                         \* too few sets
Reasons == {NoReason, "wrong score"}

\* request bodies of Report, sent by Reporter:
\* <<partnerPlayerId, opp1PlayerId, opp2PlayerId, sets>>
Reporter == "p1"
ReportBodies ==
  { <<"p2", "p3", "p4", s>> : s \in SetLists } \cup
  { <<"p2", "p1", "p3", ValidSets>>,         \* the reporter named as opponent
    <<"p2", "p1", "p2", ValidSets>>,         \* the reporter's pair as opponent
    <<NoId, "p3", "p4", ValidSets>>,         \* partner missing
    <<"p2", NoId, "p4", ValidSets>>,         \* opponent missing
    <<"p1", "p3", "p4", ValidSets>>,         \* partner is the reporter
    <<"p2", "p3", "p3", ValidSets>> }        \* same opponent twice

\* callers of Reject and Dispute: p3 is an opponent of every match reported
\* above that names p3, p1 only of the matches naming p1 as an opponent
Refusers == {"p1", "p3"}

\* game counts as they arrive in a JSON body: a number n or n + 1/2, null, or
\* a missing property (undefined)
JsonInt(n) == [t |-> "number", n |-> n, half |-> FALSE]
RawScores ==
  { JsonInt(n) : n \in -1..9 } \cup
  { [t |-> "number", n |-> 3, half |-> TRUE],      \* 3.5
    [t |-> "null", n |-> 0, half |-> FALSE],
    [t |-> "undefined", n |-> 0, half |-> FALSE] }

\* lists of sets that validateSetGames accepts one by one
MaxSets == 4                          \* longest list of sets sent
ValidScores ==
  { <<6, 0>>, <<6, 4>>, <<7, 5>>, <<7, 6>>,
    <<0, 6>>, <<4, 6>>, <<5, 7>>, <<6, 7>> }
ValidSetLists == UNION { [1..n -> ValidScores] : n \in 0..MaxSets }

(* ---------------------------- cfg() ------------------------------------ *)
STATUS_PENDING == "PENDING_CONFIRMATION"
STATUS_CONFIRMED == "CONFIRMED"
STATUS_DISPUTED == "DISPUTED"
STATUS_REJECTED == "REJECTED"
DEFAULT_RATING == 1000
ELO_K_PAIR == 32
ELO_K_PLAYER == 32

VARIABLES
  players,    \* Players table: player id -> [rating, gamesPlayed, wins, losses]
  pairs,      \* Pairs table, in creation order; the pair id is the index
  matches,    \* Matches table, in creation order; the match id is the index
  setScores,  \* SetScores table, in creation order
  calls,      \* the request each handler slot is executing, with its locals
  out,        \* the request answered by the last step and the response sent;
              \* NoOut when the step sent no response
  started,    \* number of requests issued so far
  applied     \* per match id: how many times its rating write was executed

vars == <<players, pairs, matches, setScores, calls, out, started, applied>>

(* ---------------------------- helpers ---------------------------------- *)
\* Math.round of a half-integer sum of two non-negative integers
RoundHalf(a, b) == (a + b + 1) \div 2

\* Largest rating difference d = rA - rB for which the winner A still gains
\* at least n points: Math.round(32 / (1 + 10^(d/400))) >= n, n = 1..32.
EloThresholds ==
  << 719, 523, 428, 364, 314, 273, 237, 205, 176, 149, 124, 100, 77, 54, 32,
     10, -11, -33, -55, -78, -101, -125, -150, -177, -206, -238, -274, -315,
     -365, -429, -524, -720 >>

\* Math.round(eloDelta(rA, rB, 1, 32)): the points a winner rated rA takes
\* from a loser rated rB.
WinnerGain(rA, rB) ==
  Cardinality({n \in 1..Len(EloThresholds) : rA - rB <= EloThresholds[n]})

\* Math.round(eloDelta(rA, rB, scoreA, 32)), the signed change of side A
RoundedEloDelta(rA, rB, scoreA) ==
  IF scoreA = 1 THEN WinnerGain(rA, rB) ELSE 0 - WinnerGain(rB, rA)

(* ------------- IEEE 754 double arithmetic of eloDelta ------------------- *)
\* A natural number below 2^72 is three limbs of 24 bits, least significant
\* first; a positive double is [neg, m, e] with value m * 2^e and
\* 2^52 <= m < 2^53, zero is the record with m = 0.
LimbBits == 24
LimbBase == 2^LimbBits
MantissaBits == 53

\* the limbs <<x0, x1, x2>> with the carries (or borrows) propagated
Limbs(x0, x1, x2) ==
  LET y1 == x1 + (x0 \div LimbBase)
  IN << x0 % LimbBase, y1 % LimbBase, x2 + (y1 \div LimbBase) >>

BigZero == <<0, 0, 0>>
BigOne == <<1, 0, 0>>
BigAdd(a, b) == Limbs(a[1] + b[1], a[2] + b[2], a[3] + b[3])
BigSub(a, b) == Limbs(a[1] - b[1], a[2] - b[2], a[3] - b[3])
BigMulSmall(a, k) == Limbs(a[1] * k, a[2] * k, a[3] * k)
BigLess(a, b) ==
  \/ a[3] < b[3]
  \/ a[3] = b[3] /\ a[2] < b[2]
  \/ a[3] = b[3] /\ a[2] = b[2] /\ a[1] < b[1]
BigHalf(a) ==
  << (a[1] + (a[2] % 2) * LimbBase) \div 2,
     (a[2] + (a[3] % 2) * LimbBase) \div 2,
     a[3] \div 2 >>

\* a * 2^n and a \div 2^n, a limb or a few bits at a time
RECURSIVE BigShiftLeft(_, _)
BigShiftLeft(a, n) ==
  IF n = 0 THEN a
  ELSE IF n >= LimbBits THEN BigShiftLeft(<<0, a[1], a[2]>>, n - LimbBits)
  ELSE IF n > 6 THEN BigShiftLeft(BigMulSmall(a, 64), n - 6)
  ELSE BigMulSmall(a, 2^n)

RECURSIVE BigShiftRight(_, _)
BigShiftRight(a, n) ==
  IF n = 0 THEN a
  ELSE IF n >= LimbBits THEN BigShiftRight(<<a[2], a[3], 0>>, n - LimbBits)
  ELSE << (a[1] \div 2^n) + (a[2] % 2^n) * 2^(LimbBits - n),
          (a[2] \div 2^n) + (a[3] % 2^n) * 2^(LimbBits - n),
          a[3] \div 2^n >>

\* number of bits of a
BitLen(a) ==
  LET top == IF a[3] # 0 THEN 3 ELSE IF a[2] # 0 THEN 2 ELSE 1
  IN (top - 1) * LimbBits
     + Cardinality({k \in 0..(LimbBits - 1) : 2^k <= a[top]})

FZero == [neg |-> FALSE, m |-> BigZero, e |-> 0]

\* the double nearest to n * 2^e (plus a little when sticky), ties to even
Round53(n, e, sticky) ==
  LET s == BitLen(n) - MantissaBits IN
  IF n = BigZero THEN FZero
  ELSE IF s <= 0
  THEN [neg |-> FALSE, m |-> BigShiftLeft(n, 0 - s), e |-> e + s]
  ELSE LET q == BigShiftRight(n, s)
           rem == BigSub(n, BigShiftLeft(q, s))
           half == BigShiftLeft(BigOne, s - 1)
           up == \/ BigLess(half, rem)
                 \/ rem = half /\ (sticky \/ q[1] % 2 = 1)
           r == IF up THEN BigAdd(q, BigOne) ELSE q
       IN IF r = BigShiftLeft(BigOne, MantissaBits)
          THEN [neg |-> FALSE, m |-> BigHalf(r), e |-> e + s + 1]
          ELSE [neg |-> FALSE, m |-> r, e |-> e + s]

\* the double of a small natural number
FromInt(n) == Round53(<<n, 0, 0>>, 0, FALSE)
FOne == FromInt(1)

FNeg(a) == IF a.m = BigZero THEN a ELSE [a EXCEPT !.neg = ~a.neg]

\* a + b of two positive doubles
FAdd(a, b) ==
  LET e == IF a.e < b.e THEN a.e ELSE b.e
  IN Round53(BigAdd(BigShiftLeft(a.m, a.e - e), BigShiftLeft(b.m, b.e - e)),
             e, FALSE)

\* a - b of two positive doubles
FSub(a, b) ==
  LET e == IF a.e < b.e THEN a.e ELSE b.e
      x == BigShiftLeft(a.m, a.e - e)
      y == BigShiftLeft(b.m, b.e - e)
  IN IF BigLess(x, y) THEN FNeg(Round53(BigSub(y, x), e, FALSE))
     ELSE Round53(BigSub(x, y), e, FALSE)

\* n more quotient bits of the long division by m; st is <<quotient, remainder>>
RECURSIVE DivBits(_, _, _)
DivBits(st, m, n) ==
  IF n = 0 THEN st
  ELSE LET r2 == BigAdd(st[2], st[2])
           q2 == BigAdd(st[1], st[1])
       IN IF BigLess(r2, m) THEN DivBits(<<q2, r2>>, m, n - 1)
          ELSE DivBits(<<BigAdd(q2, BigOne), BigSub(r2, m)>>, m, n - 1)

\* a / b of two positive doubles: the quotient of the mantissas to 55 bits
\* after the leading one, 11 bits at a time, then rounded
FDiv(a, b) ==
  LET first == IF BigLess(a.m, b.m) THEN <<BigZero, a.m>>
               ELSE <<BigOne, BigSub(a.m, b.m)>>
      s1 == DivBits(first, b.m, 11)
      s2 == DivBits(s1, b.m, 11)
      s3 == DivBits(s2, b.m, 11)
      s4 == DivBits(s3, b.m, 11)
      s5 == DivBits(s4, b.m, 11)
  IN Round53(s5[1], a.e - b.e - 55, s5[2] # BigZero)

\* k * a for a natural number k below 128 and a double a
FMulInt(k, a) ==
  LET r == Round53(BigMulSmall(a.m, k), a.e, FALSE)
  IN IF a.neg THEN FNeg(r) ELSE r

\* Math.pow(10, n) for an integer n, taken as correctly rounded
RECURSIVE IntPow10(_)
IntPow10(n) == IF n = 0 THEN 1 ELSE 10 * IntPow10(n - 1)
MathPow10(n) ==
  IF n >= 0 THEN FromInt(IntPow10(n)) ELSE FDiv(FOne, FromInt(IntPow10(0 - n)))

\* eloDelta with the expected score 1 / Math.pow(10, (rB - rA) / 400)
eloDelta_NoOnePlus(rA, rB, scoreA, k) ==
  LET expectedA == FDiv(FOne, MathPow10((rB - rA) \div 400))
  IN FMulInt(k, IF scoreA = 0 THEN FNeg(expectedA) ELSE FSub(FOne, expectedA))

\* eloDelta(rA, rB, scoreA, k) for ratings whose difference is a multiple of
\* 400 and scoreA 0 or 1: k * (scoreA - 1 / (1 + Math.pow(10, (rB - rA) / 400)))
eloDelta(rA, rB, scoreA, k) ==
  LET expectedA == FDiv(FOne, FAdd(FOne, MathPow10((rB - rA) \div 400)))
  IN FMulInt(k, IF scoreA = 0 THEN FNeg(expectedA) ELSE FSub(FOne, expectedA))

\* validateSetGames with a 6-5 set accepted as well
validateSetGamesIn_SixFive(p1, p2, u) ==
  IF p1 < 0 \/ p2 < 0 THEN "invalid"
  ELSE IF p1 = p2 THEN "draw"
  ELSE LET w == IF p1 > p2 THEN p1 ELSE p2
           l == IF p1 > p2 THEN p2 ELSE p1
       IN IF (w = 6 * u /\ l <= 5 * u) \/ (w = 7 * u /\ (l = 5 * u \/ l = 6 * u))
          THEN "ok" ELSE "invalid_padel"

\* validateSetGames on two finite numbers p1, p2 that are counted in 1/u
\* games (u = 1 for integers): "ok", or the error it throws
validateSetGamesIn(p1, p2, u) ==
  IF p1 < 0 \/ p2 < 0 THEN "invalid"
  ELSE IF p1 = p2 THEN "draw"
  ELSE LET w == IF p1 > p2 THEN p1 ELSE p2
           l == IF p1 > p2 THEN p2 ELSE p1
       IN IF (w = 6 * u /\ l <= 4 * u) \/ (w = 7 * u /\ (l = 5 * u \/ l = 6 * u))
          THEN "ok" ELSE "invalid_padel"

\* validateSetGames on two JSON integers
validateSetGames(a, b) == validateSetGamesIn(a, b, 1)

\* Number(v) is finite: Number(null) is 0, Number(undefined) is NaN
IsFiniteNumber(v) == v.t \in {"number", "null"}

\* Number(v) of a finite v, counted in half games
NumberInHalves(v) ==
  IF v.t = "null" THEN 0 ELSE 2 * v.n + (IF v.half THEN 1 ELSE 0)

\* validateSetGames on two raw JSON values
validateSetGamesRaw(a, b) ==
  IF ~IsFiniteNumber(a) \/ ~IsFiniteNumber(b) THEN "invalid"
  ELSE validateSetGamesIn(NumberInHalves(a), NumberInHalves(b), 2)

\* scoreText: parsedSets.map(s => `${s.p1}-${s.p2}`).join(' ')
RECURSIVE scoreText(_)
scoreText(sets) ==
  IF Len(sets) = 0 THEN ""
  ELSE LET first == ToString(sets[1][1]) \o "-" \o ToString(sets[1][2]) IN
       IF Len(sets) = 1 THEN first
       ELSE first \o " " \o scoreText(Tail(sets))

\* set wins of pair 1 / pair 2 over a sequence of <<p1, p2>> scores
SetWins1(ss) == Cardinality({i \in 1..Len(ss) : ss[i][1] > ss[i][2]})
SetWins2(ss) == Len(ss) - SetWins1(ss)

\* uniq: distinct truthy ids of an array, as a set
uniq(ids) == ids \ {NoId}

\* containsAll as it would be with some() in place of every()
containsAll_Any(haystackIds, needIds) == needIds \cap haystackIds # {}

\* containsAll(haystackIds, needIds)
containsAll(haystackIds, needIds) == needIds \subseteq haystackIds

\* the search of findOrCreatePair comparing the players in the given order only
FindPair_Ordered(prs, a, b) ==
  LET hits == {i \in 1..Len(prs) :
                 /\ prs[i].player1 # NoId /\ prs[i].player2 # NoId
                 /\ prs[i].player1 = a /\ prs[i].player2 = b}
  IN IF hits = {} THEN 0 ELSE CHOOSE i \in hits : \A j \in hits : i <= j

\* the first pair record whose two players are {a, b}; 0 when there is none
FindPair(prs, a, b) ==
  LET hits == {i \in 1..Len(prs) :
                 /\ prs[i].player1 # NoId /\ prs[i].player2 # NoId
                 /\ \/ (prs[i].player1 = a /\ prs[i].player2 = b)
                    \/ (prs[i].player1 = b /\ prs[i].player2 = a)}
  IN IF hits = {} THEN 0 ELSE CHOOSE i \in hits : \A j \in hits : i <= j

NoOut ==
  [op |-> "none", me |-> NoId, partner |-> NoId, opp1 |-> NoId,
   opp2 |-> NoId, mid |-> 0, resp |-> "none"]

Idle ==
  [op |-> "none", pc |-> "idle", me |-> NoId, partner |-> NoId,
   opp1 |-> NoId, opp2 |-> NoId, sets |-> <<>>, mid |-> 0,
   reason |-> NoReason, m |-> <<>>, oppIds |-> {}, nextConfirmed |-> {},
   playersById |-> <<>>, pairsById |-> <<>>, ss |-> <<>>,
   myPair |-> 0, oppPair |-> 0, myPairRec |-> <<>>, oppPairRec |-> <<>>]

\* an arriving request is taken by the first free handler slot
FirstFree(p) ==
  /\ calls[p].pc = "idle"
  /\ \A q \in Procs : q < p => calls[q].pc # "idle"

InFlight(op) == Cardinality({p \in Procs : calls[p].op = op})

\* the client sets busy while a request of its user is pending and sends
\* nothing else: a caller has at most one request in flight
NotBusy(me) == \A q \in Procs : calls[q].me # me

\* the handler of slot p, executing request c, sends response r and ends
Finish(p, c, r) ==
  /\ calls' = [calls EXCEPT ![p] = Idle]
  /\ out' = [op |-> c.op, me |-> c.me, partner |-> c.partner, opp1 |-> c.opp1,
             opp2 |-> c.opp2, mid |-> c.mid, resp |-> r]

\* the handler of slot p moves to step pc with updated locals c
Goto(p, c) ==
  /\ calls' = [calls EXCEPT ![p] = c]
  /\ out' = NoOut

Init ==
  /\ players = [x \in Players |->
                  [rating |-> DEFAULT_RATING, gamesPlayed |-> 0,
                   wins |-> 0, losses |-> 0]]
  /\ pairs = <<>>
  /\ matches = <<>>
  /\ setScores = <<>>
  /\ calls = [p \in Procs |-> Idle]
  /\ out = NoOut
  /\ started = 0
  /\ applied = [i \in 1..MaxMatches |-> 0]

(* ------------------- POST /api/matches/report -------------------------- *)
\* the checks of Report without the one that forbids a third set
ReportValidation_ThirdSetAllowed(me, partner, opp1, opp2, sets) ==
  IF partner = NoId \/ opp1 = NoId \/ opp2 = NoId THEN "400 ids required"
  ELSE IF partner = me THEN "400 partner is yourself"
  ELSE IF opp1 = opp2 THEN "400 opponent twice"
  ELSE IF Len(sets) < 2 \/ Len(sets) > 3 THEN "400 provide 2 or 3 sets"
  ELSE IF \E i \in 1..Len(sets) : validateSetGames(sets[i][1], sets[i][2]) # "ok"
       THEN "500 invalid set"
  ELSE LET first2 == SubSeq(sets, 1, 2) IN
       IF SetWins1(first2) = 1 /\ SetWins2(first2) = 1 /\ Len(sets) # 3
       THEN "400 third set required"
       ELSE "ok"

\* the checks of the handler before its first store access: "ok", or the
\* response the handler sends
ReportValidation(me, partner, opp1, opp2, sets) ==
  IF partner = NoId \/ opp1 = NoId \/ opp2 = NoId THEN "400 ids required"
  ELSE IF partner = me THEN "400 partner is yourself"
  ELSE IF opp1 = opp2 THEN "400 opponent twice"
  ELSE IF Len(sets) < 2 \/ Len(sets) > 3 THEN "400 provide 2 or 3 sets"
  ELSE IF \E i \in 1..Len(sets) : validateSetGames(sets[i][1], sets[i][2]) # "ok"
       THEN "500 invalid set"
  ELSE LET first2 == SubSeq(sets, 1, 2) IN
       IF SetWins1(first2) = 1 /\ SetWins2(first2) = 1 /\ Len(sets) # 3
       THEN "400 third set required"
       ELSE IF (SetWins1(first2) = 2 \/ SetWins2(first2) = 2) /\ Len(sets) = 3
       THEN "400 match decided"
       ELSE "ok"

\* the handler resolving the reporter's pair before it validates the sets
ReportStart_PairBeforeSets(p) ==
  /\ FirstFree(p)
  /\ started < MaxCalls
  /\ Len(matches) + InFlight("report") < MaxMatches
  /\ NotBusy(Reporter)
  /\ \E body \in ReportBodies :
       LET me == Reporter
           partner == body[1]
           opp1 == body[2]
           opp2 == body[3]
           sets == body[4]
           v == ReportValidation(me, partner, opp1, opp2, sets)
           c == [Idle EXCEPT !.op = "report", !.me = me, !.partner = partner,
                             !.opp1 = opp1, !.opp2 = opp2, !.sets = sets]
       IN IF v # "ok"
          THEN /\ Finish(p, c, v)
               /\ pairs' = IF partner \in Players \ {me}
                               /\ FindPair(pairs, me, partner) = 0
                            THEN Append(pairs,
                                   [player1 |-> me, player2 |-> partner,
                                    rating |-> RoundHalf(players[me].rating,
                                                         players[partner].rating),
                                    gamesPlayed |-> 0, wins |-> 0, losses |-> 0])
                            ELSE pairs
          ELSE /\ Goto(p, [c EXCEPT !.pc = "listPairs1", !.playersById = players])
               /\ pairs' = pairs
  /\ started' = started + 1
  /\ UNCHANGED <<players, matches, setScores, applied>>

\* The request arrives, the caller's Player record is looked up, the body is
\* validated and listAll(T_PLAYERS) fills playersById.  The arrival and the
\* lookup read nothing that a step of the model writes, so they are folded
\* into the step of the first read whose result can differ.
ReportStart(p) ==
  /\ FirstFree(p)
  /\ started < MaxCalls
  /\ Len(matches) + InFlight("report") < MaxMatches
  /\ NotBusy(Reporter)
  /\ \E body \in ReportBodies :
       LET me == Reporter
           partner == body[1]
           opp1 == body[2]
           opp2 == body[3]
           sets == body[4]
           v == ReportValidation(me, partner, opp1, opp2, sets)
           c == [Idle EXCEPT !.op = "report", !.me = me, !.partner = partner,
                             !.opp1 = opp1, !.opp2 = opp2, !.sets = sets]
       IN IF v # "ok"
          THEN Finish(p, c, v)
          ELSE Goto(p, [c EXCEPT !.pc = "listPairs1", !.playersById = players])
  /\ started' = started + 1
  /\ UNCHANGED <<players, pairs, matches, setScores, applied>>

\* findOrCreatePair, first half: listAll(T_PAIRS) and the search
FindPairStep(p, pc, a, b, field, found, missing) ==
  /\ calls[p].op = "report" /\ calls[p].pc = pc
  /\ LET i == FindPair(pairs, a, b) IN
       IF i # 0
       THEN Goto(p, [calls[p] EXCEPT !.pc = found, ![field] = i])
       ELSE Goto(p, [calls[p] EXCEPT !.pc = missing])
  /\ UNCHANGED <<players, pairs, matches, setScores, started, applied>>

\* findOrCreatePair, second half: createRecords(T_PAIRS)
CreatePairStep(p, pc, a, b, field, next) ==
  /\ calls[p].op = "report" /\ calls[p].pc = pc
  /\ pairs' = Append(pairs,
       [player1 |-> a, player2 |-> b,
        rating |-> RoundHalf(calls[p].playersById[a].rating,
                             calls[p].playersById[b].rating),
        gamesPlayed |-> 0, wins |-> 0, losses |-> 0])
  /\ Goto(p, [calls[p] EXCEPT !.pc = next, ![field] = Len(pairs) + 1])
  /\ UNCHANGED <<players, matches, setScores, started, applied>>

ReportFindMyPair(p) ==
  FindPairStep(p, "listPairs1", calls[p].me, calls[p].partner,
               "myPair", "listPairs2", "createPair1")

ReportCreateMyPair(p) ==
  CreatePairStep(p, "createPair1", calls[p].me, calls[p].partner,
                 "myPair", "listPairs2")

ReportFindOppPair(p) ==
  FindPairStep(p, "listPairs2", calls[p].opp1, calls[p].opp2,
               "oppPair", "createMatch", "createPair2")

ReportCreateOppPair(p) ==
  CreatePairStep(p, "createPair2", calls[p].opp1, calls[p].opp2,
                 "oppPair", "createMatch")

\* createRecords(T_MATCHES) with status PENDING_CONFIRMATION
ReportCreateMatch(p) ==
  /\ calls[p].op = "report" /\ calls[p].pc = "createMatch"
  /\ matches' = Append(matches,
       [status |-> STATUS_PENDING, pair1 |-> calls[p].myPair,
        pair2 |-> calls[p].oppPair, initiatedBy |-> calls[p].me,
        confirmedBy |-> {}, score |-> scoreText(calls[p].sets),
        disputeReason |-> ""])
  /\ Goto(p, [calls[p] EXCEPT !.pc = "createSets", !.mid = Len(matches) + 1])
  /\ UNCHANGED <<players, pairs, setScores, started, applied>>

\* setRecords with the sets numbered from 0
setRecords_FromZero(c) ==
  [i \in 1..Len(c.sets) |->
     [match |-> c.mid, setNo |-> i - 1, p1 |-> c.sets[i][1],
      p2 |-> c.sets[i][2],
      winnerPair |-> IF c.sets[i][1] > c.sets[i][2]
                     THEN c.myPair ELSE c.oppPair]]

\* setRecords: one SetScore record per parsed set of the call c
setRecords(c) ==
  [i \in 1..Len(c.sets) |->
     [match |-> c.mid, setNo |-> i, p1 |-> c.sets[i][1], p2 |-> c.sets[i][2],
      winnerPair |-> IF c.sets[i][1] > c.sets[i][2]
                     THEN c.myPair ELSE c.oppPair]]

\* ReportCreateSets as it would be if Report counted the game for the reporter
ReportCreateSets_Counted(p) ==
  /\ calls[p].op = "report" /\ calls[p].pc = "createSets"
  /\ LET c == calls[p] IN
     /\ setScores' = setScores \o setRecords(c)
     /\ players' = [players EXCEPT ![c.me].gamesPlayed = @ + 1]
  /\ Finish(p, calls[p], "200 reported")
  /\ UNCHANGED <<pairs, matches, started, applied>>

\* createRecords(T_SETSCORES), one record per set
ReportCreateSets(p) ==
  /\ calls[p].op = "report" /\ calls[p].pc = "createSets"
  /\ LET c == calls[p] IN
     setScores' = setScores \o setRecords(c)
  /\ Finish(p, calls[p], "200 reported")
  /\ UNCHANGED <<players, pairs, matches, started, applied>>

Report(p) ==
  \/ ReportStart(p)
  \/ ReportFindMyPair(p)
  \/ ReportCreateMyPair(p)
  \/ ReportFindOppPair(p)
  \/ ReportCreateOppPair(p)
  \/ ReportCreateMatch(p)
  \/ ReportCreateSets(p)

(* ------------------- applyRatingsForMatch ------------------------------ *)
\* one record per id of an update batch, applied in order (the last one wins)
RECURSIVE ApplyBatch(_, _)
ApplyBatch(table, upd) ==
  IF upd = <<>> THEN table
  ELSE ApplyBatch([table EXCEPT ![upd[1][1]] = upd[1][2]], Tail(upd))

\* ids named more than once in one update batch
HasDuplicateIds(upd) ==
  \E i, j \in 1..Len(upd) : i # j /\ upd[i][1] = upd[j][1]

\* pair1Won taken from the first set alone
pair1Won_FirstSet(ss) == ss[1].p1 > ss[1].p2

\* pair1Won, from the set scores loaded for the match
pair1Won(ss) ==
  Cardinality({i \in 1..Len(ss) : ss[i].p1 > ss[i].p2}) >
  Cardinality({i \in 1..Len(ss) : ~(ss[i].p1 > ss[i].p2)})

\* a rating/counter record after one more game that is always counted a win
Played_AlwaysWon(r, newRating, won) ==
  [r EXCEPT !.rating = newRating,
            !.gamesPlayed = r.gamesPlayed + 1,
            !.wins = r.wins + 1]

\* a rating/counter record after one more game
Played(r, newRating, won) ==
  [r EXCEPT !.rating = newRating,
            !.gamesPlayed = r.gamesPlayed + 1,
            !.wins = r.wins + (IF won THEN 1 ELSE 0),
            !.losses = r.losses + (IF won THEN 0 ELSE 1)]

\* updPairs that counts the game of the second pair but not its result
updPairs_ResultOfPair2Dropped(c) ==
  LET p1 == c.pairsById[c.m.pair1]
      p2 == c.pairsById[c.m.pair2]
      won == pair1Won(c.ss)
      deltaPair == RoundedEloDelta(p1.rating, p2.rating, IF won THEN 1 ELSE 0)
  IN << <<c.m.pair1, Played(p1, p1.rating + deltaPair, won)>>,
        <<c.m.pair2, [p2 EXCEPT !.rating = p2.rating - deltaPair,
                                !.gamesPlayed = p2.gamesPlayed + 1]>> >>

\* updPairs of the call c, computed from the pairs it loaded
updPairs(c) ==
  LET p1 == c.pairsById[c.m.pair1]
      p2 == c.pairsById[c.m.pair2]
      won == pair1Won(c.ss)
      deltaPair == RoundedEloDelta(p1.rating, p2.rating, IF won THEN 1 ELSE 0)
  IN << <<c.m.pair1, Played(p1, p1.rating + deltaPair, won)>>,
        <<c.m.pair2, Played(p2, p2.rating - deltaPair, ~won)>> >>

\* updPlayers of the call c, computed from the players and pairs it loaded
updPlayers(c) ==
  LET p1 == c.pairsById[c.m.pair1]
      p2 == c.pairsById[c.m.pair2]
      pl == c.playersById
      won == pair1Won(c.ss)
      p1Avg == RoundHalf(pl[p1.player1].rating, pl[p1.player2].rating)
      p2Avg == RoundHalf(pl[p2.player1].rating, pl[p2.player2].rating)
      deltaPlayer == RoundedEloDelta(p1Avg, p2Avg, IF won THEN 1 ELSE 0)
      up(x, d, w) == <<x, Played(pl[x], pl[x].rating + d, w)>>
  IN << up(p1.player1, deltaPlayer, won), up(p1.player2, deltaPlayer, won),
        up(p2.player1, 0 - deltaPlayer, ~won),
        up(p2.player2, 0 - deltaPlayer, ~won) >>

\* listAll(T_PLAYERS)
ApplyListPlayers(p) ==
  /\ calls[p].op = "confirm" /\ calls[p].pc = "applyListPlayers"
  /\ Goto(p, [calls[p] EXCEPT !.pc = "applyListPairs", !.playersById = players])
  /\ UNCHANGED <<players, pairs, matches, setScores, started, applied>>

\* listAll(T_PAIRS), then the checks on the loaded pairs
ApplyListPairs(p) ==
  /\ calls[p].op = "confirm" /\ calls[p].pc = "applyListPairs"
  /\ LET c == calls[p] IN
       IF c.m.pair1 > Len(pairs) \/ c.m.pair2 > Len(pairs)
       THEN Finish(p, calls[p], "500 pair records not found")
       ELSE IF \E i \in {c.m.pair1, c.m.pair2} :
                 pairs[i].player1 = NoId \/ pairs[i].player2 = NoId
       THEN Finish(p, calls[p], "500 pair must have 2 players")
       ELSE IF \E i \in {c.m.pair1, c.m.pair2} :
                 {pairs[i].player1, pairs[i].player2} \ DOMAIN c.playersById # {}
       THEN Finish(p, calls[p], "500 player record not found")
       ELSE Goto(p, [c EXCEPT !.pc = "applyUpdPairs", !.pairsById = pairs])
  /\ UNCHANGED <<players, pairs, matches, setScores, started, applied>>

\* updateRecords(T_PAIRS, updPairs)
ApplyUpdPairs(p) ==
  /\ calls[p].op = "confirm" /\ calls[p].pc = "applyUpdPairs"
  /\ LET upd == updPairs(calls[p]) IN
       \/ /\ pairs' = ApplyBatch(pairs, upd)
          /\ applied' = [applied EXCEPT ![calls[p].mid] = @ + 1]
          /\ Goto(p, [calls[p] EXCEPT !.pc = "applyUpdPlayers"])
       \/ /\ HasDuplicateIds(upd)      \* the store may refuse such a batch
          /\ Finish(p, calls[p], "502 upstream")
          /\ UNCHANGED <<pairs, applied>>
  /\ UNCHANGED <<players, matches, setScores, started>>

\* updateRecords(T_PLAYERS, updPlayers)
ApplyUpdPlayers(p) ==
  /\ calls[p].op = "confirm" /\ calls[p].pc = "applyUpdPlayers"
  /\ LET upd == updPlayers(calls[p]) IN
       \/ /\ players' = ApplyBatch(players, upd)
          /\ Finish(p, calls[p], "200 confirmed")
       \/ /\ HasDuplicateIds(upd)
          /\ Finish(p, calls[p], "502 upstream")
          /\ UNCHANGED players
  /\ UNCHANGED <<pairs, matches, setScores, started, applied>>

(* ------------------- POST /api/matches/confirm ------------------------- *)
MatchIds == 1..MaxMatches

\* the status checks of Confirm without the already-confirmed early return
ConfirmStatusCheck_NoEarlyReturn(status) ==
  IF status = STATUS_DISPUTED \/ status = STATUS_REJECTED
  THEN "409 cannot confirm"
  ELSE "ok"

\* the status checks of Confirm: "ok", or the response it sends
ConfirmStatusCheck(status) ==
  IF status = STATUS_DISPUTED \/ status = STATUS_REJECTED
  THEN "409 cannot confirm"
  ELSE IF status = STATUS_CONFIRMED THEN "200 already confirmed"
  ELSE "ok"

\* opponentPlayerIds as it would be if any joined player were accepted
OpponentPlayerIds_Anyone(oppPair) == Players

\* opponentPlayerIds = uniq([oppPair.player1, oppPair.player2])
OpponentPlayerIds(oppPair) == uniq({oppPair.player1, oppPair.player2})

\* The request arrives, the caller's Player record is found, then
\* getRecord(T_MATCHES, matchId) with the status checks, then
\* getRecord(T_PAIRS, m.pair2) with the opponent check.  The members of a
\* pair are never written after its creation, so the second read returns the
\* same members wherever it falls in the interleaving: it is folded into the
\* step of the match read.
ConfirmStart(p) ==
  /\ FirstFree(p)
  /\ started < MaxCalls
  /\ \E me \in {x \in Players : NotBusy(x)}, mid \in MatchIds :
       LET c == [Idle EXCEPT !.op = "confirm", !.me = me, !.mid = mid] IN
       IF mid > Len(matches) THEN Finish(p, c, "502 upstream")
       ELSE LET m == matches[mid] IN
         IF ConfirmStatusCheck(m.status) # "ok"
         THEN Finish(p, c, ConfirmStatusCheck(m.status))
         ELSE IF m.pair2 = 0
         THEN Finish(p, c, "500 match missing opponent pair")
         ELSE LET opponentPlayerIds == OpponentPlayerIds(pairs[m.pair2]) IN
           IF me \notin opponentPlayerIds
           THEN Finish(p, c, "403 only opponent pair")
           ELSE Goto(p, [c EXCEPT !.pc = "updConfirmed", !.m = m,
                           !.oppIds = opponentPlayerIds,
                           !.nextConfirmed = uniq(uniq(m.confirmedBy) \cup {me})])
  /\ started' = started + 1
  /\ UNCHANGED <<players, pairs, matches, setScores, applied>>

\* updateRecords(T_MATCHES, Confirmed By), then nowAllConfirmed
ConfirmUpdConfirmed(p) ==
  /\ calls[p].op = "confirm" /\ calls[p].pc = "updConfirmed"
  /\ LET c == calls[p] IN
       /\ matches' = [matches EXCEPT ![c.mid].confirmedBy = c.nextConfirmed]
       /\ IF ~containsAll(c.nextConfirmed, c.oppIds)
          THEN Finish(p, calls[p], "200 pending")
          ELSE Goto(p, [c EXCEPT !.pc = "updStatus"])
  /\ UNCHANGED <<players, pairs, setScores, started, applied>>

\* updateRecords(T_MATCHES, Status = CONFIRMED)
ConfirmUpdStatus(p) ==
  /\ calls[p].op = "confirm" /\ calls[p].pc = "updStatus"
  /\ LET c == calls[p] IN
       /\ matches' = [matches EXCEPT ![c.mid].status = STATUS_CONFIRMED,
                                     ![c.mid].confirmedBy = c.nextConfirmed]
       /\ Goto(p, [c EXCEPT !.pc = "listSets"])
  /\ UNCHANGED <<players, pairs, setScores, started, applied>>

\* ConfirmListSets without the check on the number of set scores
ConfirmListSets_Unchecked(p) ==
  /\ calls[p].op = "confirm" /\ calls[p].pc = "listSets"
  /\ LET c == calls[p]
         setsForMatch == SelectSeq(setScores, LAMBDA r : r.match = c.mid)
     IN IF c.m.pair1 = 0 \/ c.m.pair2 = 0
        THEN Finish(p, calls[p], "500 match missing pair")
        ELSE Goto(p, [c EXCEPT !.pc = "applyListPlayers", !.ss = setsForMatch])
  /\ UNCHANGED <<players, pairs, matches, setScores, started, applied>>

\* listAll(T_SETSCORES), the filter, and the first checks of applyRatingsForMatch
ConfirmListSets(p) ==
  /\ calls[p].op = "confirm" /\ calls[p].pc = "listSets"
  /\ LET c == calls[p]
         setsForMatch == SelectSeq(setScores, LAMBDA r : r.match = c.mid)
     IN IF c.m.pair1 = 0 \/ c.m.pair2 = 0
        THEN Finish(p, calls[p], "500 match missing pair")
        ELSE IF Len(setsForMatch) < 2
        THEN Finish(p, calls[p], "500 match missing set scores")
        ELSE Goto(p, [c EXCEPT !.pc = "applyListPlayers", !.ss = setsForMatch])
  /\ UNCHANGED <<players, pairs, matches, setScores, started, applied>>

Confirm(p) ==
  \/ ConfirmStart(p)
  \/ ConfirmUpdConfirmed(p)
  \/ ConfirmUpdStatus(p)
  \/ ConfirmListSets(p)
  \/ ApplyListPlayers(p)
  \/ ApplyListPairs(p)
  \/ ApplyUpdPairs(p)
  \/ ApplyUpdPlayers(p)

(* ------------- POST /api/matches/reject and /dispute ------------------- *)
\* The request arrives, the caller's Player record is found, then
\* getRecord(T_MATCHES, matchId) with the status check, then
\* getRecord(T_PAIRS, m.pair2) with the opponent check (folded as in Confirm).
\* the status check of Reject and Dispute left out
RefuseStatusCheck_None(status) == "ok"

\* if (m.status === c.STATUS_CONFIRMED) return 409: "ok", or the response
RefuseStatusCheck(status) ==
  IF status = STATUS_CONFIRMED THEN "409 already confirmed" ELSE "ok"

RefuseStart(p, op) ==
  /\ FirstFree(p)
  /\ started < MaxCalls
  /\ \E me \in {x \in Refusers : NotBusy(x)}, mid \in MatchIds,
        reason \in Reasons :
       LET c == [Idle EXCEPT !.op = op, !.me = me, !.mid = mid,
                             !.reason = reason] IN
       IF mid > Len(matches) THEN Finish(p, c, "502 upstream")
       ELSE LET m == matches[mid] IN
         IF RefuseStatusCheck(m.status) # "ok"
         THEN Finish(p, c, RefuseStatusCheck(m.status))
         ELSE IF m.pair2 = 0
         THEN Finish(p, c, "500 match missing opponent pair")
         ELSE IF me \notin OpponentPlayerIds(pairs[m.pair2])
         THEN Finish(p, c, "403 only opponent pair")
         ELSE Goto(p, [c EXCEPT !.pc = "update", !.m = m])
  /\ started' = started + 1
  /\ UNCHANGED <<players, pairs, matches, setScores, applied>>

\* the reason stored as received, without the || '' default
ReasonOrEmpty_Raw(reason) == reason

\* reason || ''
ReasonOrEmpty(reason) == IF reason = NoReason THEN "" ELSE reason

\* updateRecords(T_MATCHES, Status and Dispute Reason)
RefuseUpdate(p, op, status, response) ==
  /\ calls[p].op = op /\ calls[p].pc = "update"
  /\ LET c == calls[p] IN
       matches' = [matches EXCEPT
                     ![c.mid].status = status,
                     ![c.mid].disputeReason = ReasonOrEmpty(c.reason)]
  /\ Finish(p, calls[p], response)
  /\ UNCHANGED <<players, pairs, setScores, started, applied>>

RejectStart(p) == RefuseStart(p, "reject")
RejectUpdate(p) == RefuseUpdate(p, "reject", STATUS_REJECTED, "200 rejected")

DisputeStart(p) == RefuseStart(p, "dispute")
DisputeUpdate(p) == RefuseUpdate(p, "dispute", STATUS_DISPUTED, "200 disputed")

Reject(p) == RejectStart(p) \/ RejectUpdate(p)

Dispute(p) == DisputeStart(p) \/ DisputeUpdate(p)

Next == \E p \in Procs : Report(p) \/ Confirm(p) \/ Reject(p) \/ Dispute(p)

Spec == Init /\ [][Next]_vars

\* Report and Confirm calls only: no Reject and no Dispute is ever issued
NextConfirms == \E p \in Procs : Report(p) \/ Confirm(p)

SpecConfirms == Init /\ [][NextConfirms]_vars

\* createRecords(T_SETSCORES) of Report fails: airtableRequest throws with
\* status 502 and the catch of the handler answers with it
ReportCreateSetsFails(p) ==
  /\ calls[p].op = "report" /\ calls[p].pc = "createSets"
  /\ Finish(p, calls[p], "502 upstream")
  /\ UNCHANGED <<players, pairs, matches, setScores, started, applied>>

\* Report and Confirm calls against a store whose SetScores create may fail
NextFail ==
  \E p \in Procs : Report(p) \/ ReportCreateSetsFails(p) \/ Confirm(p)

SpecFail == Init /\ [][NextFail]_vars

(* ------------- index.js: POST /api/matches/report ---------------------- *)
\* the checks of the index.js handler before its first store read: "ok", or
\* the response it sends
IndexValidation(me, partner, opp1, opp2, sets) ==
  IF partner = NoId \/ opp1 = NoId \/ opp2 = NoId THEN "400 ids required"
  ELSE IF Len(sets) < 2 THEN "400 at least 2 sets"
  ELSE IF Len(sets) > 3 THEN "400 max 3 sets"
  ELSE IF \E i \in 1..Len(sets) : sets[i][1] < 0 \/ sets[i][2] < 0
       THEN "500 invalid set"
  ELSE IF \E i \in 1..Len(sets) : sets[i][1] = sets[i][2]
       THEN "500 draw"
  ELSE LET first2 == SubSeq(sets, 1, 2) IN
       IF SetWins1(first2) = 1 /\ SetWins2(first2) = 1 /\ Len(sets) < 3
       THEN "400 third set required"
       ELSE "ok"

\* request arrives, caller looked up, body validated, listAll(T_PLAYERS)
IndexReportStart(p) ==
  /\ FirstFree(p)
  /\ started < MaxCalls
  /\ Len(matches) + InFlight("indexReport") < MaxMatches
  /\ NotBusy(Reporter)
  /\ \E body \in ReportBodies :
       LET me == Reporter
           partner == body[1]
           opp1 == body[2]
           opp2 == body[3]
           sets == body[4]
           v == IndexValidation(me, partner, opp1, opp2, sets)
           c == [Idle EXCEPT !.op = "indexReport", !.me = me,
                             !.partner = partner, !.opp1 = opp1,
                             !.opp2 = opp2, !.sets = sets]
       IN IF v # "ok"
          THEN Finish(p, c, v)
          ELSE Goto(p, [c EXCEPT !.pc = "listPairs1", !.playersById = players])
  /\ started' = started + 1
  /\ UNCHANGED <<players, pairs, matches, setScores, applied>>

\* findOrCreatePair of index.js, first half: its checks, listAll(T_PAIRS)
\* and the search; the record found is kept
IndexFindPairStep(p, pc, a, b, field, recField, found, missing) ==
  /\ calls[p].op = "indexReport" /\ calls[p].pc = pc
  /\ IF a = b THEN Finish(p, calls[p], "500 same player twice")
     ELSE LET i == FindPair(pairs, a, b) IN
       IF i # 0
       THEN Goto(p, [calls[p] EXCEPT !.pc = found, ![field] = i,
                                     ![recField] = pairs[i]])
       ELSE Goto(p, [calls[p] EXCEPT !.pc = missing])
  /\ UNCHANGED <<players, pairs, matches, setScores, started, applied>>

\* findOrCreatePair of index.js, second half: createRecords(T_PAIRS)
IndexCreatePairStep(p, pc, a, b, field, recField, next) ==
  /\ calls[p].op = "indexReport" /\ calls[p].pc = pc
  /\ LET rec == [player1 |-> a, player2 |-> b,
                 rating |-> RoundHalf(calls[p].playersById[a].rating,
                                      calls[p].playersById[b].rating),
                 gamesPlayed |-> 0, wins |-> 0, losses |-> 0]
     IN /\ pairs' = Append(pairs, rec)
        /\ Goto(p, [calls[p] EXCEPT !.pc = next, ![field] = Len(pairs) + 1,
                                    ![recField] = rec])
  /\ UNCHANGED <<players, matches, setScores, started, applied>>

IndexFindMyPair(p) ==
  IndexFindPairStep(p, "listPairs1", calls[p].me, calls[p].partner,
                    "myPair", "myPairRec", "listPairs2", "createPair1")

IndexCreateMyPair(p) ==
  IndexCreatePairStep(p, "createPair1", calls[p].me, calls[p].partner,
                      "myPair", "myPairRec", "listPairs2")

IndexFindOppPair(p) ==
  IndexFindPairStep(p, "listPairs2", calls[p].opp1, calls[p].opp2,
                    "oppPair", "oppPairRec", "createMatch", "createPair2")

IndexCreateOppPair(p) ==
  IndexCreatePairStep(p, "createPair2", calls[p].opp1, calls[p].opp2,
                      "oppPair", "oppPairRec", "createMatch")

\* createRecords(T_MATCHES): no Status is written
IndexCreateMatch(p) ==
  /\ calls[p].op = "indexReport" /\ calls[p].pc = "createMatch"
  /\ matches' = Append(matches,
       [status |-> "", pair1 |-> calls[p].myPair,
        pair2 |-> calls[p].oppPair, initiatedBy |-> calls[p].me,
        confirmedBy |-> {}, score |-> scoreText(calls[p].sets),
        disputeReason |-> ""])
  /\ Goto(p, [calls[p] EXCEPT !.pc = "createSets", !.mid = Len(matches) + 1])
  /\ UNCHANGED <<players, pairs, setScores, started, applied>>

\* createRecords(T_SETSCORES)
IndexCreateSets(p) ==
  /\ calls[p].op = "indexReport" /\ calls[p].pc = "createSets"
  /\ LET c == calls[p] IN
     setScores' = setScores \o setRecords(c)
  /\ Goto(p, [calls[p] EXCEPT !.pc = "updPairs"])
  /\ UNCHANGED <<players, pairs, matches, started, applied>>

\* myWon, from the parsed sets
myWon(sets) == SetWins1(sets) > SetWins2(sets)

\* updatesPairs, computed from the pair records found or created
updatesPairs(c) ==
  LET won == myWon(c.sets)
      deltaPair == RoundedEloDelta(c.myPairRec.rating, c.oppPairRec.rating,
                                   IF won THEN 1 ELSE 0)
  IN << <<c.myPair, Played(c.myPairRec, c.myPairRec.rating + deltaPair, won)>>,
        <<c.oppPair,
          Played(c.oppPairRec, c.oppPairRec.rating - deltaPair, ~won)>> >>

\* updatesPlayers, computed from playersById
updatesPlayers(c) ==
  LET pl == c.playersById
      won == myWon(c.sets)
      avgMy == RoundHalf(pl[c.me].rating, pl[c.partner].rating)
      avgOpp == RoundHalf(pl[c.opp1].rating, pl[c.opp2].rating)
      deltaPlayer == RoundedEloDelta(avgMy, avgOpp, IF won THEN 1 ELSE 0)
      applyPlayerDelta(r, d) == (IF r = 0 THEN DEFAULT_RATING ELSE r) + d
      up(x, d, w) == <<x, Played(pl[x], applyPlayerDelta(pl[x].rating, d), w)>>
  IN << up(c.me, deltaPlayer, won), up(c.partner, deltaPlayer, won),
        up(c.opp1, 0 - deltaPlayer, ~won), up(c.opp2, 0 - deltaPlayer, ~won) >>

\* updateRecords(T_PAIRS, updatesPairs)
IndexUpdPairs(p) ==
  /\ calls[p].op = "indexReport" /\ calls[p].pc = "updPairs"
  /\ LET upd == updatesPairs(calls[p]) IN
       \/ /\ pairs' = ApplyBatch(pairs, upd)
          /\ applied' = [applied EXCEPT ![calls[p].mid] = @ + 1]
          /\ Goto(p, [calls[p] EXCEPT !.pc = "updPlayers"])
       \/ /\ HasDuplicateIds(upd)      \* the store may refuse such a batch
          /\ Finish(p, calls[p], "502 upstream")
          /\ UNCHANGED <<pairs, applied>>
  /\ UNCHANGED <<players, matches, setScores, started>>

\* updateRecords(T_PLAYERS, updatesPlayers)
IndexUpdPlayers(p) ==
  /\ calls[p].op = "indexReport" /\ calls[p].pc = "updPlayers"
  /\ LET upd == updatesPlayers(calls[p]) IN
       \/ /\ players' = ApplyBatch(players, upd)
          /\ Finish(p, calls[p], "200 reported")
       \/ /\ HasDuplicateIds(upd)
          /\ Finish(p, calls[p], "502 upstream")
          /\ UNCHANGED players
  /\ UNCHANGED <<pairs, matches, setScores, started, applied>>

IndexReport(p) ==
  \/ IndexReportStart(p)
  \/ IndexFindMyPair(p)
  \/ IndexCreateMyPair(p)
  \/ IndexFindOppPair(p)
  \/ IndexCreateOppPair(p)
  \/ IndexCreateMatch(p)
  \/ IndexCreateSets(p)
  \/ IndexUpdPairs(p)
  \/ IndexUpdPlayers(p)

NextIndex == \E p \in Procs : IndexReport(p)

SpecIndex == Init /\ [][NextIndex]_vars

\* the id of a player record that the listing of the Players table (at most
\* 1000 records) does not return
UnlistedPlayer == "p9"

\* the rating of a player who is not listed taken as 0
ratingOrDefault_Zero(playersById, id) ==
  IF id \in DOMAIN playersById THEN playersById[id].rating ELSE 0

\* playersById[id]?.rating ?? DEFAULT_RATING
ratingOrDefault(playersById, id) ==
  IF id \in DOMAIN playersById THEN playersById[id].rating ELSE DEFAULT_RATING

\* findOrCreatePair without its checks on the two ids
findOrCreatePairChecks_None(playerAId, playerBId) == "ok"

\* the checks findOrCreatePair makes before it reads the store: "ok", or the
\* response the handler's catch sends for the error thrown
findOrCreatePairChecks(playerAId, playerBId) ==
  IF playerAId = NoId \/ playerBId = NoId
  THEN "500 both players required"
  ELSE IF playerAId = playerBId THEN "500 same player twice"
  ELSE "ok"

(* ------------------- POST /api/pairs/create ---------------------------- *)
\* request bodies of create-pair: <<player1Id, player2Id>>
PairsCreateBodies ==
  { <<"p1", "p2">>, <<"p2", "p1">>, <<"p3", "p4">>, <<"p1", "p3">>,
    <<"p1", "p1">>, <<NoId, "p2">>,
    <<"p1", UnlistedPlayer>> }

\* the request arrives, the ids are checked, listAll(T_PLAYERS) fills
\* playersById, and findOrCreatePair makes its own checks
PairsCreateStart(p) ==
  /\ FirstFree(p)
  /\ started < MaxCalls
  /\ \E body \in PairsCreateBodies :
       LET c == [Idle EXCEPT !.op = "pairsCreate", !.opp1 = body[1],
                             !.opp2 = body[2]]
       IN IF body[1] = NoId \/ body[2] = NoId
          THEN Finish(p, c, "400 ids required")
          ELSE IF findOrCreatePairChecks(body[1], body[2]) # "ok"
          THEN Finish(p, c, findOrCreatePairChecks(body[1], body[2]))
          ELSE Goto(p, [c EXCEPT !.pc = "listPairs", !.playersById = players])
  /\ started' = started + 1
  /\ UNCHANGED <<players, pairs, matches, setScores, applied>>

\* findOrCreatePair without the search for an existing pair
PairsCreateFind_NoSearch(p) ==
  /\ calls[p].op = "pairsCreate" /\ calls[p].pc = "listPairs"
  /\ Goto(p, [calls[p] EXCEPT !.pc = "createPair", !.pairsById = pairs])
  /\ UNCHANGED <<players, pairs, matches, setScores, started, applied>>

\* findOrCreatePair, first half: listAll(T_PAIRS) and the search; the list
\* read is kept in pairsById
PairsCreateFind(p) ==
  /\ calls[p].op = "pairsCreate" /\ calls[p].pc = "listPairs"
  /\ LET i == FindPair(pairs, calls[p].opp1, calls[p].opp2) IN
       IF i # 0
       THEN Finish(p, [calls[p] EXCEPT !.mid = i], "200 pair found")
       ELSE Goto(p, [calls[p] EXCEPT !.pc = "createPair", !.pairsById = pairs])
  /\ UNCHANGED <<players, pairs, matches, setScores, started, applied>>

\* findOrCreatePair, second half: createRecords(T_PAIRS)
PairsCreateCreate(p) ==
  /\ calls[p].op = "pairsCreate" /\ calls[p].pc = "createPair"
  /\ LET c == calls[p] IN
       pairs' = Append(pairs,
         [player1 |-> c.opp1, player2 |-> c.opp2,
          rating |-> RoundHalf(ratingOrDefault(c.playersById, c.opp1),
                               ratingOrDefault(c.playersById, c.opp2)),
          gamesPlayed |-> 0, wins |-> 0, losses |-> 0])
  /\ Finish(p, [calls[p] EXCEPT !.mid = Len(pairs) + 1], "200 pair created")
  /\ UNCHANGED <<players, matches, setScores, started, applied>>

PairsCreate(p) ==
  \/ PairsCreateStart(p)
  \/ PairsCreateFind(p)
  \/ PairsCreateCreate(p)

\* Report and create-pair calls that do not overlap: one handler slot
NextSeq == Report(1) \/ PairsCreate(1)

SpecSeq == Init /\ [][NextSeq]_vars

\* create-pair calls that may overlap
NextPairs == \E p \in Procs : PairsCreate(p)

SpecPairs == Init /\ [][NextPairs]_vars

(* ------------- the score rules on their own ---------------------------- *)
\* one call of validateSetGames on a pair of raw values, or one Report body
\* with valid ids and a list of valid sets that is taken through the checks
\* of Report, its SetScores records and the winner count of
\* applyRatingsForMatch
InitSets ==
  /\ players = [x \in Players |->
                  [rating |-> DEFAULT_RATING, gamesPlayed |-> 0,
                   wins |-> 0, losses |-> 0]]
  /\ pairs = <<>>
  /\ matches = <<>>
  /\ setScores = <<>>
  /\ out = NoOut
  /\ started = 0
  /\ applied = [i \in 1..MaxMatches |-> 0]
  /\ \/ \E a \in RawScores, b \in RawScores :
          calls = [p \in Procs |->
                     IF p = 1
                     THEN [Idle EXCEPT !.op = "validateSetGames", !.pc = "call",
                                       !.sets = << <<a, b>> >>]
                     ELSE Idle]
     \/ \E sets \in ValidSetLists :
          calls = [p \in Procs |->
                     IF p = 1
                     THEN [Idle EXCEPT !.op = "report", !.pc = "call",
                                       !.me = "p1", !.partner = "p2",
                                       !.opp1 = "p3", !.opp2 = "p4",
                                       !.sets = sets, !.mid = 1,
                                       !.myPair = 1, !.oppPair = 2]
                     ELSE Idle]

\* validateSetGames(s.p1, s.p2) returns or throws
ValidateSet ==
  /\ calls[1].op = "validateSetGames" /\ calls[1].pc = "call"
  /\ out' = [NoOut EXCEPT
               !.op = "validateSetGames",
               !.resp = validateSetGamesRaw(calls[1].sets[1][1],
                                            calls[1].sets[1][2])]
  /\ calls' = [calls EXCEPT ![1].pc = "returned"]
  /\ UNCHANGED <<players, pairs, matches, setScores, started, applied>>

\* the checks of Report on the list of sets; the SetScores of an accepted list
ValidateSets ==
  /\ calls[1].op = "report" /\ calls[1].pc = "call"
  /\ LET c == calls[1]
         v == ReportValidation(c.me, c.partner, c.opp1, c.opp2, c.sets)
     IN /\ out' = [NoOut EXCEPT !.op = "report", !.resp = v]
        /\ IF v = "ok"
           THEN /\ setScores' = setRecords(c)
                /\ calls' = [calls EXCEPT ![1].pc = "stored"]
           ELSE /\ setScores' = setScores
                /\ calls' = [calls EXCEPT ![1].pc = "returned"]
  /\ UNCHANGED <<players, pairs, matches, started, applied>>

\* the set scores of the match are loaded and the winner is counted
CountWinner ==
  /\ calls[1].op = "report" /\ calls[1].pc = "stored"
  /\ LET ss == SelectSeq(setScores, LAMBDA r : r.match = calls[1].mid) IN
       /\ out' = [NoOut EXCEPT
                    !.op = "pair1Won",
                    !.resp = IF pair1Won(ss) THEN "pair1" ELSE "pair2"]
       /\ calls' = [calls EXCEPT ![1].pc = "counted", ![1].ss = ss]
  /\ UNCHANGED <<players, pairs, matches, setScores, started, applied>>

NextSets == ValidateSet \/ ValidateSets \/ CountWinner

SpecSets == InitSets /\ [][NextSets]_vars

(* ------------- the rating delta on its own ------------------------------ *)
\* ratings and K factors eloDelta is called with: the rating differences are
\* multiples of 400, where Math.pow(10, .) has an integer exponent
EloRatings == {600, 1000, 1400}
EloKs == {24, 25, 32, 40}

\* one call eloDelta(rA, rB, scoreA, k), held in calls[1].sets
InitElo ==
  /\ players = [x \in Players |->
                  [rating |-> DEFAULT_RATING, gamesPlayed |-> 0,
                   wins |-> 0, losses |-> 0]]
  /\ pairs = <<>>
  /\ matches = <<>>
  /\ setScores = <<>>
  /\ out = NoOut
  /\ started = 0
  /\ applied = [i \in 1..MaxMatches |-> 0]
  /\ \E rA \in EloRatings, rB \in EloRatings, scoreA \in {0, 1}, k \in EloKs :
       calls = [p \in Procs |->
                  IF p = 1
                  THEN [Idle EXCEPT !.op = "eloDelta", !.pc = "call",
                                    !.sets = <<rA, rB, scoreA, k>>]
                  ELSE Idle]

\* eloDelta(rA, rB, scoreA, k) returns
EloDeltaOfA ==
  /\ calls[1].op = "eloDelta" /\ calls[1].pc = "call"
  /\ LET in == calls[1].sets IN
       out' = [NoOut EXCEPT !.op = "eloDelta",
                            !.resp = eloDelta(in[1], in[2], in[3], in[4])]
  /\ calls' = [calls EXCEPT ![1].pc = "returned"]
  /\ UNCHANGED <<players, pairs, matches, setScores, started, applied>>

\* the same result from the other side: eloDelta(rB, rA, 1 - scoreA, k)
EloDeltaOfB ==
  /\ calls[1].op = "eloDelta" /\ calls[1].pc = "returned"
  /\ LET in == calls[1].sets IN
       calls' = [calls EXCEPT
                   ![1].pc = "both",
                   ![1].m = eloDelta(in[2], in[1], 1 - in[3], in[4])]
  /\ UNCHANGED <<players, pairs, matches, setScores, out, started, applied>>

NextElo == EloDeltaOfA \/ EloDeltaOfB

SpecElo == InitElo /\ [][NextElo]_vars

(* ------------- rating applications of different matches ---------------- *)
\* a rating/counter record with the given values
Standing(rating, gamesPlayed, wins, losses) ==
  [rating |-> rating, gamesPlayed |-> gamesPlayed, wins |-> wins,
   losses |-> losses]

\* a Match record of pair1 against pair2, reported by a member of pair1
ReportedMatch(status, pair1, pair2, initiatedBy, confirmedBy) ==
  [status |-> status, pair1 |-> pair1, pair2 |-> pair2,
   initiatedBy |-> initiatedBy, confirmedBy |-> confirmedBy,
   score |-> scoreText(ValidSets), disputeReason |-> ""]

\* The store after p1/p2 beat p3/p4 in match 1 (confirmed and applied: 16
\* points each way), the same pairs were reported again in match 2, and p1/p3
\* were reported beating p2/p4 in match 3; matches 2 and 3 each wait for the
\* confirmation of one more opponent.
InitApply ==
  /\ players = [x \in Players |->
                  IF x \in {"p1", "p2"} THEN Standing(1016, 1, 1, 0)
                  ELSE Standing(984, 1, 0, 1)]
  /\ pairs = << [player1 |-> "p1", player2 |-> "p2"] @@ Standing(1016, 1, 1, 0),
                [player1 |-> "p3", player2 |-> "p4"] @@ Standing(984, 1, 0, 1),
                [player1 |-> "p1", player2 |-> "p3"] @@ Standing(1000, 0, 0, 0),
                [player1 |-> "p2", player2 |-> "p4"] @@ Standing(1000, 0, 0, 0) >>
  /\ matches = << ReportedMatch(STATUS_CONFIRMED, 1, 2, "p1", {"p3", "p4"}),
                  ReportedMatch(STATUS_PENDING, 1, 2, "p1", {"p4"}),
                  ReportedMatch(STATUS_PENDING, 3, 4, "p1", {"p2"}) >>
  /\ setScores =
       setRecords([mid |-> 1, sets |-> ValidSets, myPair |-> 1, oppPair |-> 2])
       \o setRecords([mid |-> 2, sets |-> ValidSets, myPair |-> 1, oppPair |-> 2])
       \o setRecords([mid |-> 3, sets |-> ValidSets, myPair |-> 3, oppPair |-> 4])
  /\ calls = [p \in Procs |-> Idle]
  /\ out = NoOut
  /\ started = 0
  /\ applied = <<1, 0, 0>>

\* ConfirmStart for any match of the store: the request arrives, then
\* getRecord(T_MATCHES, matchId) with the status checks, then
\* getRecord(T_PAIRS, m.pair2) with the opponent check
ConfirmStored(p) ==
  /\ FirstFree(p)
  /\ started < MaxCalls
  /\ \E me \in {x \in Players : NotBusy(x)}, mid \in 1..Len(matches) :
       LET c == [Idle EXCEPT !.op = "confirm", !.me = me, !.mid = mid]
           m == matches[mid]
       IN IF ConfirmStatusCheck(m.status) # "ok"
          THEN Finish(p, c, ConfirmStatusCheck(m.status))
          ELSE IF m.pair2 = 0
          THEN Finish(p, c, "500 match missing opponent pair")
          ELSE LET opponentPlayerIds == OpponentPlayerIds(pairs[m.pair2]) IN
            IF me \notin opponentPlayerIds
            THEN Finish(p, c, "403 only opponent pair")
            ELSE Goto(p, [c EXCEPT !.pc = "updConfirmed", !.m = m,
                            !.oppIds = opponentPlayerIds,
                            !.nextConfirmed = uniq(uniq(m.confirmedBy) \cup {me})])
  /\ started' = started + 1
  /\ UNCHANGED <<players, pairs, matches, setScores, applied>>

NextApply ==
  \E p \in Procs :
    \/ ConfirmStored(p)
    \/ ConfirmUpdConfirmed(p)
    \/ ConfirmUpdStatus(p)
    \/ ConfirmListSets(p)
    \/ ApplyListPlayers(p)
    \/ ApplyListPairs(p)
    \/ ApplyUpdPairs(p)
    \/ ApplyUpdPlayers(p)

SpecApply == InitApply /\ [][NextApply]_vars

\* create-pair calls between rating applications, one request at a time
NextResolve ==
  \/ ConfirmStored(1)
  \/ ConfirmUpdConfirmed(1)
  \/ ConfirmUpdStatus(1)
  \/ ConfirmListSets(1)
  \/ ApplyListPlayers(1)
  \/ ApplyListPairs(1)
  \/ ApplyUpdPairs(1)
  \/ ApplyUpdPlayers(1)
  \/ PairsCreate(1)

SpecResolve == InitApply /\ [][NextResolve]_vars

(* ------------------- POST /api/matches ---------------------------------- *)
\* null in a response
Null == [null |-> TRUE]

\* maxRecords of the Pairs and Players listings, scaled to the store of four
\* pairs and four players: a listing returns that many records, whichever
\* the store puts first
ListLimit == 3
Listed(ids) ==
  {S \in SUBSET ids :
     Cardinality(S) = IF Cardinality(ids) < ListLimit THEN Cardinality(ids)
                      ELSE ListLimit}

\* the orders in which listAll may return the records of a table
RECURSIVE Reversed(_)
Reversed(recs) ==
  IF recs = <<>> THEN <<>> ELSE Append(Reversed(Tail(recs)), Head(recs))
ListOrders(recs) == {recs, Reversed(recs)}

\* recs.sort((a, b) => a.setNo - b.setNo): a stable sort by setNo ascending
RECURSIVE SortBySetNo(_)
SortBySetNo(recs) ==
  IF recs = <<>> THEN <<>>
  ELSE LET rest == SortBySetNo(Tail(recs))
           before == SelectSeq(rest, LAMBDA r : r.setNo < Head(recs).setNo)
           after == SelectSeq(rest, LAMBDA r : ~(r.setNo < Head(recs).setNo))
       IN before \o <<Head(recs)>> \o after

\* the set scores of a match without the sort
setScoresOfMatch_Unsorted(setNorm, id) ==
  SelectSeq(setNorm, LAMBDA x : x.match = id)

\* setNorm.filter(x => x.match === m.id).sort(...)
setScoresOfMatch(setNorm, id) ==
  SortBySetNo(SelectSeq(setNorm, LAMBDA x : x.match = id))

\* expandPair(pairId) over the listed pairs and players
expandPair(pairId, pairsById, playersById) ==
  IF pairId = 0 \/ pairId \notin DOMAIN pairsById THEN Null
  ELSE LET pr == pairsById[pairId]
           obj(x) == IF x # NoId /\ x \in DOMAIN playersById
                     THEN playersById[x] ELSE Null
       IN [id |-> pairId, player1Obj |-> obj(pr.player1),
           player2Obj |-> obj(pr.player2)] @@ pr

\* one element of the response: the match id with its loaded record m
MatchView(id, m, pairsById, playersById, setNorm) ==
  LET pair2Obj == expandPair(m.pair2, pairsById, playersById)
  IN [id |-> id,
      pair1Obj |-> expandPair(m.pair1, pairsById, playersById),
      pair2Obj |-> pair2Obj,
      setScores |-> setScoresOfMatch(setNorm, id),
      opponentPlayerIds |->
        IF pair2Obj = Null THEN {}
        ELSE uniq({pair2Obj.player1, pair2Obj.player2}),
      confirmedBy |-> uniq(m.confirmedBy)] @@ m

\* the request arrives with a valid payload; listAll(T_MATCHES)
MatchesListMatches(p) ==
  /\ FirstFree(p)
  /\ started < MaxCalls
  /\ Goto(p, [Idle EXCEPT !.op = "matches", !.pc = "listPairs", !.m = matches])
  /\ started' = started + 1
  /\ UNCHANGED <<players, pairs, matches, setScores, applied>>

\* listAll(T_PAIRS, maxRecords)
MatchesListPairs(p) ==
  /\ calls[p].op = "matches" /\ calls[p].pc = "listPairs"
  /\ \E S \in Listed(1..Len(pairs)) :
       Goto(p, [calls[p] EXCEPT !.pc = "listPlayers",
                                !.pairsById = [i \in S |-> pairs[i]]])
  /\ UNCHANGED <<players, pairs, matches, setScores, started, applied>>

\* listAll(T_PLAYERS, maxRecords)
MatchesListPlayers(p) ==
  /\ calls[p].op = "matches" /\ calls[p].pc = "listPlayers"
  /\ \E S \in Listed(Players) :
       Goto(p, [calls[p] EXCEPT !.pc = "listSets",
                                !.playersById = [x \in S |-> players[x]]])
  /\ UNCHANGED <<players, pairs, matches, setScores, started, applied>>

\* listAll(T_SETSCORES), the projection of every match, and the response
MatchesRespond(p) ==
  /\ calls[p].op = "matches" /\ calls[p].pc = "listSets"
  /\ \E setNorm \in ListOrders(setScores) :
       LET c == calls[p] IN
       /\ calls' = [calls EXCEPT ![p] = Idle]
       /\ out' = [NoOut EXCEPT !.op = "matches", !.resp = "200 matches"] @@
                 [matches |-> [i \in 1..Len(c.m) |->
                                 MatchView(i, c.m[i], c.pairsById,
                                           c.playersById, setNorm)],
                  listedPairs |-> DOMAIN c.pairsById,
                  listedPlayers |-> DOMAIN c.playersById]
  /\ UNCHANGED <<players, pairs, matches, setScores, started, applied>>

Matches(p) ==
  \/ MatchesListMatches(p)
  \/ MatchesListPairs(p)
  \/ MatchesListPlayers(p)
  \/ MatchesRespond(p)

\* the listing between confirmations, one request at a time
NextListing ==
  \/ Matches(1)
  \/ ConfirmStored(1)
  \/ ConfirmUpdConfirmed(1)
  \/ ConfirmUpdStatus(1)
  \/ ConfirmListSets(1)
  \/ ApplyListPlayers(1)
  \/ ApplyListPairs(1)
  \/ ApplyUpdPairs(1)
  \/ ApplyUpdPlayers(1)

SpecListing == InitApply /\ [][NextListing]_vars

(* ------------- identity: initData, /api/me, /api/join ------------------- *)
\* In the specifications of this section the Players table is the sequence of
\* its records in creation order (the record id is the index), each with the
\* Telegram ID it was joined with; the environment (requireEnv) is complete.
NoUser == 0                           \* a payload without user.id
\* an initData string: empty, or a payload with its signature and user
NoInitData == [present |-> FALSE, hash |-> "none", user |-> NoUser, name |-> ""]
InitDatas ==
  { NoInitData,
    [present |-> TRUE, hash |-> "bad", user |-> 101, name |-> "Ann"],
    [present |-> TRUE, hash |-> "good", user |-> 101, name |-> "Ann"],
    [present |-> TRUE, hash |-> "good", user |-> 101, name |-> "Anna"],
    [present |-> TRUE, hash |-> "good", user |-> 102, name |-> "Bob"],
    [present |-> TRUE, hash |-> "good", user |-> NoUser, name |-> ""] }

\* routes that look the caller up, and routes that only verify the payload
PlayerRoutes == {"me", "join", "report", "confirm", "reject", "dispute"}
WriteRoutes == {"report", "confirm", "reject", "dispute"}
ListRoutes == {"players", "pairs", "pairs/create", "matches"}

\* isValid(initData, BOT_TOKEN): the signature check of the payload
isValid(initData) == initData.hash = "good"

\* parse(initData): the fields of the payload
parse(initData) == [user |-> [id |-> initData.user, name |-> initData.name]]

Unparsed == [user |-> [id |-> NoUser, name |-> "unparsed"]]

\* validateTelegramInitDataOrThrow without the signature check
validateTelegramInitDataOrThrow_Unsigned(initData) ==
  IF ~initData.present
  THEN [status |-> "400 initData is required", data |-> Unparsed]
  ELSE [status |-> "ok", data |-> parse(initData)]

\* validateTelegramInitDataOrThrow(initData): the status thrown, or the
\* parsed payload
validateTelegramInitDataOrThrow(initData) ==
  IF ~initData.present
  THEN [status |-> "400 initData is required", data |-> Unparsed]
  ELSE IF ~isValid(initData)
  THEN [status |-> "401 Invalid initData", data |-> Unparsed]
  ELSE [status |-> "ok", data |-> parse(initData)]

\* a handler slot of this section: the request, the parsed payload, the
\* Player record found, and the store calls made so far
IdentityIdle ==
  [op |-> "none", pc |-> "idle", initData |-> NoInitData, data |-> Unparsed,
   existing |-> 0, reads |-> 0, writes |-> 0]

\* the handler of slot p sends response r and ends
Respond(p, c, r) ==
  /\ calls' = [calls EXCEPT ![p] = IdentityIdle]
  /\ out' = [c EXCEPT !.pc = "done"] @@ [resp |-> r]

NewPlayer(tgId, name) ==
  [telegramId |-> tgId, name |-> name, rating |-> DEFAULT_RATING,
   gamesPlayed |-> 0, wins |-> 0, losses |-> 0]

\* one player has joined before
InitIdentity ==
  /\ players = << NewPlayer(101, "Ann") >>
  /\ pairs = <<>>
  /\ matches = <<>>
  /\ setScores = <<>>
  /\ calls = [p \in Procs |-> IdentityIdle]
  /\ out = NoOut
  /\ started = 0
  /\ applied = [i \in 1..MaxMatches |-> 0]

\* a request of one of the routes arrives: the payload is verified and
\* parsed, and getOrCreatePlayerByTelegram checks user.id
IdentityStart(p, routes) ==
  /\ started < MaxCalls
  /\ FirstFree(p)
  /\ \E op \in routes, initData \in InitDatas :
       LET v == validateTelegramInitDataOrThrow(initData)
           c == [IdentityIdle EXCEPT !.op = op, !.initData = initData,
                                     !.data = v.data]
       IN IF v.status # "ok" THEN Respond(p, c, v.status)
          ELSE IF op \in PlayerRoutes /\ v.data.user.id = NoUser
          THEN Respond(p, c, "400 Telegram user is missing")
          ELSE Goto(p, [c EXCEPT !.pc = IF op \in PlayerRoutes
                                        THEN "findPlayer" ELSE "list"])
  /\ started' = started + 1
  /\ UNCHANGED <<players, pairs, matches, setScores, applied>>

\* listAll(T_PLAYERS, filterByFormula Telegram ID = tgId)[0], 0 for null
FindByTelegram(recs, tgId) ==
  LET hits == {i \in 1..Len(recs) : recs[i].telegramId = tgId}
  IN IF hits = {} THEN 0 ELSE CHOOSE i \in hits : \A j \in hits : i <= j

\* the 403 answer of a match route to a caller without Player record
MustJoin(op) ==
  IF op = "report" THEN "403 You must Join before reporting matches"
  ELSE "403 You must Join"

\* the lookup as it would be without the You must Join check
FindPlayer_NoJoinCheck(p) ==
  /\ calls[p].pc = "findPlayer"
  /\ LET existing == FindByTelegram(players, calls[p].data.user.id)
         c == [calls[p] EXCEPT !.existing = existing, !.reads = @ + 1]
     IN CASE c.op = "me" ->
               Respond(p, c, IF existing # 0 THEN "200 joined"
                                             ELSE "200 not joined")
          [] c.op = "join" ->
               Goto(p, [c EXCEPT !.pc = IF existing # 0 THEN "update"
                                                        ELSE "create"])
          [] OTHER -> Goto(p, [c EXCEPT !.pc = "body"])
  /\ UNCHANGED <<players, pairs, matches, setScores, started, applied>>

\* the lookup of getOrCreatePlayerByTelegram returns; /api/me answers, the
\* match routes refuse a caller who has not joined
FindPlayer(p) ==
  /\ calls[p].pc = "findPlayer"
  /\ LET existing == FindByTelegram(players, calls[p].data.user.id)
         c == [calls[p] EXCEPT !.existing = existing, !.reads = @ + 1]
     IN CASE c.op = "me" ->
               Respond(p, c, IF existing # 0 THEN "200 joined"
                                             ELSE "200 not joined")
          [] c.op = "join" ->
               Goto(p, [c EXCEPT !.pc = IF existing # 0 THEN "update"
                                                        ELSE "create"])
          [] OTHER ->
               IF existing = 0 THEN Respond(p, c, MustJoin(c.op))
               ELSE Goto(p, [c EXCEPT !.pc = "body"])
  /\ UNCHANGED <<players, pairs, matches, setScores, started, applied>>

\* /api/join of a joined player: updateRecords of the name
JoinUpdate(p) ==
  /\ calls[p].pc = "update"
  /\ players' = [players EXCEPT
                   ![calls[p].existing].name = calls[p].data.user.name]
  /\ Respond(p, [calls[p] EXCEPT !.writes = @ + 1], "200 updated")
  /\ UNCHANGED <<pairs, matches, setScores, started, applied>>

\* /api/join of a new player: createRecords
JoinCreate(p) ==
  /\ calls[p].pc = "create"
  /\ players' = Append(players, NewPlayer(calls[p].data.user.id,
                                          calls[p].data.user.name))
  /\ Respond(p, [calls[p] EXCEPT !.writes = @ + 1], "200 created")
  /\ UNCHANGED <<pairs, matches, setScores, started, applied>>

\* the first listAll of /api/players, /api/pairs, /api/pairs/create and
\* /api/matches; what follows it is not part of this section
ListRecords(p) ==
  /\ calls[p].pc = "list"
  /\ Respond(p, [calls[p] EXCEPT !.reads = @ + 1], "200 listed")
  /\ UNCHANGED <<players, pairs, matches, setScores, started, applied>>

\* a match route called by a joined player goes on with the request body;
\* what follows is the subject of Report, Confirm, Reject and Dispute
JoinedBody(p) ==
  /\ calls[p].pc = "body"
  /\ Respond(p, calls[p], "joined")
  /\ UNCHANGED <<players, pairs, matches, setScores, started, applied>>

\* every route, one request at a time
NextIdentity ==
  \/ IdentityStart(1, PlayerRoutes \cup ListRoutes)
  \/ FindPlayer(1)
  \/ JoinUpdate(1)
  \/ JoinCreate(1)
  \/ ListRecords(1)
  \/ JoinedBody(1)

SpecIdentity == InitIdentity /\ [][NextIdentity]_vars

\* /api/join and /api/me, two requests in flight
NextJoin ==
  \E p \in Procs :
    \/ IdentityStart(p, {"me", "join"})
    \/ FindPlayer(p)
    \/ JoinUpdate(p)
    \/ JoinCreate(p)

SpecJoin == InitIdentity /\ [][NextJoin]_vars

(* ============================ properties ================================ *)
\* the members of the opponent pair (Pair 2) of match i, read from the store
OppMembers(i) ==
  {pairs[matches[i].pair2].player1, pairs[matches[i].pair2].player2}

\* the members of Pair 1 of match i, read from the store
MyMembers(i) ==
  {pairs[matches[i].pair1].player1, pairs[matches[i].pair1].player2}

\* this step is the arrival (and first reads) of request op by me on match mid
Arrives(op, me, mid) ==
  /\ started' = started + 1
  /\ \/ out'.op = op /\ out'.me = me /\ out'.mid = mid
     \/ \E p \in Procs : /\ calls[p].pc = "idle" /\ calls'[p].op = op
                         /\ calls'[p].me = me /\ calls'[p].mid = mid

\* this step belongs to a request of kind op
IsStepOf(op) ==
  \/ \E p \in Procs : calls'[p] # calls[p] /\ (calls[p].op = op \/ calls'[p].op = op)
  \/ started' = started + 1 /\ out'.op = op

StoreUnchanged == UNCHANGED <<players, pairs, matches, setScores, applied>>

RatingsChanged ==
  \/ players' # players
  \/ \E i \in 1..Len(pairs) : pairs'[i] # pairs[i]

\* C1: under every interleaving of Confirm calls on one match, the rating
\* write of that match is executed at most once.
C1_RatingsAppliedAtMostOnce == \A i \in MatchIds : applied[i] <= 1

\* C2: a Confirm that observes status CONFIRMED answers "already confirmed",
\* ends, and writes nothing to the store.
C2_ConfirmIdempotent ==
  [][\A me \in Players, mid \in MatchIds :
       (/\ Arrives("confirm", me, mid)
        /\ mid <= Len(matches)
        /\ matches[mid].status = "CONFIRMED")
       => /\ out'.resp = "200 already confirmed"
          /\ calls' = calls
          /\ StoreUnchanged]_vars

C2_Witness ==
  /\ out.op = "confirm" /\ out.resp = "200 already confirmed"
  /\ matches[out.mid].status = "CONFIRMED"
  /\ applied[out.mid] >= 1

\* C3: once the status of a match is CONFIRMED, REJECTED or DISPUTED, no step
\* changes it.
C3_TerminalStatusNeverChanges ==
  [][\A i \in 1..Len(matches) :
       matches[i].status \in {"CONFIRMED", "REJECTED", "DISPUTED"}
       => matches'[i].status = matches[i].status]_vars

C5_NonOpponentCannotConfirm ==
  [][\A me \in Players, mid \in MatchIds :
       (/\ Arrives("confirm", me, mid)
        /\ mid <= Len(matches)
        /\ matches[mid].status = "PENDING_CONFIRMATION"
        /\ me \notin OppMembers(mid))
       => /\ out'.resp = "403 only opponent pair"
          /\ calls' = calls
          /\ StoreUnchanged]_vars

C5_Witness ==
  /\ out.op = "confirm" /\ out.resp = "403 only opponent pair"
  /\ matches[out.mid].status = "PENDING_CONFIRMATION"
  /\ out.me \notin OppMembers(out.mid)

\* C6: a Report whose opponent ids include the reporter or the partner is
\* refused with a client error before any store write: it is never accepted
\* and never answered with success.
C6_SharedPlayerRefused ==
  /\ \A p \in Procs :
       calls[p].op = "report"
       => {calls[p].opp1, calls[p].opp2} \cap {calls[p].me, calls[p].partner} = {}
  /\ (out.op = "report" /\ {out.opp1, out.opp2} \cap {out.me, out.partner} # {})
       => out.resp \notin {"200 reported"}

\* C7: every match has two different pairs with no player in common.
C7_MatchSidesDisjoint ==
  \A i \in 1..Len(matches) :
    /\ matches[i].pair1 # matches[i].pair2
    /\ MyMembers(i) \cap OppMembers(i) = {}

\* C8: a step of Report only creates records (one pair, or one pending match,
\* or the set scores of its match): it changes no existing Player, Pair, Match
\* or SetScore; ratings and counters change only in steps of Confirm.
C8_ReportOnlyCreates ==
  [][/\ IsStepOf("report")
          => /\ players' = players
             /\ applied' = applied
             /\ Len(pairs') \in {Len(pairs), Len(pairs) + 1}
             /\ \A i \in 1..Len(pairs) : pairs'[i] = pairs[i]
             /\ Len(matches') \in {Len(matches), Len(matches) + 1}
             /\ \A i \in 1..Len(matches) : matches'[i] = matches[i]
             /\ \A i \in (Len(matches) + 1)..Len(matches') :
                  matches'[i].status = "PENDING_CONFIRMATION"
             /\ \A i \in 1..Len(setScores) : setScores'[i] = setScores[i]
             /\ \A i \in (Len(setScores) + 1)..Len(setScores') :
                  setScores'[i].match \in 1..Len(matches)
     /\ RatingsChanged => IsStepOf("confirm")
    ]_vars

C8_Witness ==
  /\ out.op = "report" /\ out.resp = "200 reported"
  /\ Len(matches) >= 1 /\ Len(pairs) >= 1
  /\ \E i \in 1..Len(setScores) : setScores[i].match = out.mid

\* C9: in index.js no step of Report changes the rating or a counter of a
\* Player or of an existing Pair.
C9_IndexReportChangesNoRating ==
  [][~RatingsChanged]_vars

\* C10: the write of Reject (Dispute) sets the status of its match to REJECTED
\* (DISPUTED) and the dispute reason to the reason given, empty when none is
\* given, and changes nothing else; the other steps of Reject and Dispute
\* write nothing.
C10_RefusalWritesStatusAndReasonOnly ==
  [][/\ \A p \in Procs :
          LET c == calls[p] IN
          (c.op \in {"reject", "dispute"} /\ c.pc = "update" /\ calls'[p] # c)
          => /\ matches' =
                  [matches EXCEPT
                     ![c.mid].status =
                        IF c.op = "reject" THEN "REJECTED" ELSE "DISPUTED",
                     ![c.mid].disputeReason =
                        IF c.reason = NoReason THEN "" ELSE c.reason]
             /\ out'.resp = IF c.op = "reject" THEN "200 rejected"
                                               ELSE "200 disputed"
             /\ UNCHANGED <<players, pairs, setScores, applied>>
     /\ \A op \in {"reject", "dispute"}, me \in Players, mid \in MatchIds :
          Arrives(op, me, mid) => StoreUnchanged
    ]_vars

C10_Witness ==
  \E i \in 1..Len(matches) :
    /\ matches[i].status = "REJECTED"
    /\ matches[i].disputeReason = "wrong score"
    /\ out.op = "reject" /\ out.resp = "200 rejected" /\ out.mid = i
    /\ applied[i] = 0

\* C11: a Confirm that reads status REJECTED or DISPUTED, and a Reject or
\* Dispute that reads status CONFIRMED, is answered 409, ends, and writes
\* nothing: the match, its Confirmed By and all ratings stay as they were.
C11_ConflictWritesNothing ==
  [][\A me \in Players, mid \in MatchIds :
       /\ (/\ Arrives("confirm", me, mid)
           /\ mid <= Len(matches)
           /\ matches[mid].status \in {"REJECTED", "DISPUTED"})
          => /\ out'.resp = "409 cannot confirm"
             /\ calls' = calls
             /\ StoreUnchanged
       /\ \A op \in {"reject", "dispute"} :
            (/\ Arrives(op, me, mid)
             /\ mid <= Len(matches)
             /\ matches[mid].status = "CONFIRMED")
            => /\ out'.resp = "409 already confirmed"
               /\ calls' = calls
               /\ StoreUnchanged]_vars

\* a Confirm refused on a rejected or disputed match
C11_WitnessConfirm ==
  /\ out.op = "confirm" /\ out.resp = "409 cannot confirm"
  /\ matches[out.mid].status \in {"REJECTED", "DISPUTED"}
  /\ matches[out.mid].confirmedBy = {}

\* a Reject or Dispute refused on a confirmed match
C11_Witness ==
  /\ out.op \in {"reject", "dispute"} /\ out.resp = "409 already confirmed"
  /\ matches[out.mid].status = "CONFIRMED"

\* C12: for integers p1, p2 in -1..9 with w the larger and l the smaller, the
\* set-score validator accepts (p1, p2) exactly when both are non-negative,
\* they differ, and w = 6 with l <= 4 or w = 7 with l = 5 or l = 6; it
\* rejects every draw and every negative input.
C12_ValidateSetRule ==
  LET c == calls[1]
      a == c.sets[1][1].n
      b == c.sets[1][2].n
      w == IF a >= b THEN a ELSE b
      l == IF a >= b THEN b ELSE a
  IN (/\ c.op = "validateSetGames" /\ c.pc = "returned"
      /\ \A k \in 1..2 : c.sets[1][k].t = "number" /\ ~c.sets[1][k].half)
     => /\ (out.resp = "ok")
           <=> (/\ a >= 0 /\ b >= 0 /\ a # b
                /\ \/ (w = 6 /\ l <= 4)
                   \/ (w = 7 /\ l \in {5, 6}))
        /\ (a = b => out.resp # "ok")
        /\ ((a < 0 \/ b < 0) => out.resp # "ok")

\* the validator has accepted a tie-break set
C12_Witness ==
  /\ calls[1].op = "validateSetGames" /\ calls[1].pc = "returned"
  /\ calls[1].sets[1] = <<JsonInt(6), JsonInt(7)>>
  /\ out.op = "validateSetGames" /\ out.resp = "ok"

\* C13: of the lists of sets that are valid one by one, Report rejects a list
\* of fewer than 2 or more than 3 sets, a 2-set list split 1-1 (third set
\* required) and a 3-set list whose first two sets went to the same pair
\* (match decided); it accepts every other list.
C13_CompositionRule ==
  LET sets == calls[1].sets
      n == Len(sets)
      won1 == {i \in 1..n : i <= 2 /\ sets[i][1] > sets[i][2]}
      won2 == {i \in 1..n : i <= 2 /\ sets[i][1] < sets[i][2]}
      split == Cardinality(won1) = 1 /\ Cardinality(won2) = 1
  IN (calls[1].op = "report" /\ out.op = "report")
     => /\ (n < 2 \/ n > 3) => out.resp = "400 provide 2 or 3 sets"
        /\ (n = 2 /\ split) => out.resp = "400 third set required"
        /\ (n = 3 /\ ~split) => out.resp = "400 match decided"
        /\ ((n = 2 /\ ~split) \/ (n = 3 /\ split)) => out.resp = "ok"

\* a three-set list with the first two sets split has been accepted
C13_Witness ==
  /\ calls[1].op = "report" /\ out.op = "report" /\ out.resp = "ok"
  /\ calls[1].sets = << <<6, 4>>, <<6, 7>>, <<7, 5>> >>
  /\ Len(setScores) = 3

\* C14: for every list of sets that passes the checks of Report the set wins
\* are 2-0 or 2-1 for one pair, never tied, and the winner counted from the
\* stored SetScores of the match is pair 1 exactly when pair 1 won two sets.
C14_DefinedWinner ==
  LET sets == calls[1].sets
      w1 == Cardinality({i \in 1..Len(sets) : sets[i][1] > sets[i][2]})
      w2 == Cardinality({i \in 1..Len(sets) : sets[i][1] < sets[i][2]})
  IN /\ (calls[1].op = "report" /\ calls[1].pc \in {"stored", "counted"})
        => /\ w1 # w2
           /\ <<w1, w2>> \in {<<2, 0>>, <<2, 1>>, <<0, 2>>, <<1, 2>>}
           /\ Len(setScores) = Len(sets)
     /\ (calls[1].op = "report" /\ calls[1].pc = "counted")
        => /\ out.op = "pair1Won"
           /\ (out.resp = "pair1") <=> (w1 = 2)
           /\ (out.resp = "pair2") <=> (w2 = 2)

\* pair 2 has been counted the winner of a match it won 2-1 after losing the
\* first set
C14_Witness ==
  /\ calls[1].op = "report" /\ calls[1].pc = "counted"
  /\ calls[1].sets = << <<6, 4>>, <<6, 7>>, <<5, 7>> >>
  /\ out.op = "pair1Won" /\ out.resp = "pair2"

\* C15: the set-score validator accepts only non-negative integers: a set
\* with a fractional, null or missing game count is never accepted.
C15_RejectsNonIntegers ==
  (/\ calls[1].op = "validateSetGames" /\ calls[1].pc = "returned"
   /\ out.resp = "ok")
  => \A k \in 1..2 :
       LET v == calls[1].sets[1][k] IN
       v.t = "number" /\ ~v.half /\ v.n >= 0

\* C16: the match write of a Report by R with partner P against O1, O2 adds
\* exactly one Match: PENDING_CONFIRMATION, initiated by R, Pair 1 the pair
\* {R, P}, Pair 2 the pair {O1, O2}, nobody in Confirmed By, and the score
\* text "p1-p2" per set in order, separated by single spaces.  Its set write
\* adds exactly n = 2 or 3 SetScores linked to that match, numbered 1..n in
\* input order, with the games as reported and the winner Pair 1 when
\* p1 > p2, else Pair 2, and the Report answers success.
C16_ReportPostcondition ==
  [][\A p \in Procs :
       LET c == calls[p]
           n == Len(c.sets)
           text == IF c.sets = << <<6, 4>>, <<4, 6>>, <<7, 5>> >>
                   THEN "6-4 4-6 7-5"
                   ELSE IF c.sets = << <<4, 6>>, <<5, 7>> >>
                   THEN "4-6 5-7" ELSE "?"
       IN
       /\ (c.op = "report" /\ c.pc = "createMatch" /\ calls'[p] # c)
          => /\ Len(matches') = Len(matches) + 1
             /\ \A i \in 1..Len(matches) : matches'[i] = matches[i]
             /\ setScores' = setScores
             /\ LET m == matches'[Len(matches')] IN
                  /\ m.status = "PENDING_CONFIRMATION"
                  /\ m.initiatedBy = c.me
                  /\ {pairs[m.pair1].player1, pairs[m.pair1].player2}
                       = {c.me, c.partner}
                  /\ {pairs[m.pair2].player1, pairs[m.pair2].player2}
                       = {c.opp1, c.opp2}
                  /\ m.confirmedBy = {}
                  /\ m.score = text
       /\ (c.op = "report" /\ c.pc = "createSets" /\ calls'[p] # c)
          => /\ n \in {2, 3}
             /\ out'.resp = "200 reported"
             /\ matches' = matches
             /\ \A i \in 1..Len(setScores) :
                  setScores'[i] = setScores[i] /\ setScores[i].match # c.mid
             /\ Len(setScores') = Len(setScores) + n
             /\ \A k \in 1..n :
                  LET r == setScores'[Len(setScores) + k] IN
                  /\ r.match = c.mid /\ r.setNo = k
                  /\ r.p1 = c.sets[k][1] /\ r.p2 = c.sets[k][2]
                  /\ r.winnerPair = IF c.sets[k][1] > c.sets[k][2]
                                    THEN matches[c.mid].pair1
                                    ELSE matches[c.mid].pair2
    ]_vars

\* a three-set Report has been answered with success
C16_Witness ==
  /\ out.op = "report" /\ out.resp = "200 reported"
  /\ matches[out.mid].score = "6-4 4-6 7-5"
  /\ matches[out.mid].initiatedBy = out.me
  /\ Cardinality({i \in 1..Len(setScores) : setScores[i].match = out.mid}) = 3

\* the record r after a game won (lost) with 16 points gained (given away)
After16(r, won) ==
  [rating |-> IF won THEN r.rating + 16 ELSE r.rating - 16,
   gamesPlayed |-> r.gamesPlayed + 1,
   wins |-> IF won THEN r.wins + 1 ELSE r.wins,
   losses |-> IF won THEN r.losses ELSE r.losses + 1]

\* C17: with K = 32, when both pairs of a match of four different players
\* have equal ratings, the pair write of the confirming call gives the
\* winning pair +16, the losing pair -16, both pairs one more game, the
\* winner one more win and the loser one more loss; when the four players
\* have equal ratings its player write does the same for the two winners
\* and the two losers.  (The call wrote what it had read: no other write to
\* these records fell between its read and its write.)
C17_EqualRatingsSixteen ==
  [][\A p \in Procs :
       LET c == calls[p]
           m == matches[c.mid]
           ss == {i \in 1..Len(setScores) : setScores[i].match = c.mid}
           won1 == Cardinality({i \in ss : setScores[i].p1 > setScores[i].p2})
                   > Cardinality({i \in ss : setScores[i].p1 < setScores[i].p2})
           side1 == {pairs[m.pair1].player1, pairs[m.pair1].player2}
           side2 == {pairs[m.pair2].player1, pairs[m.pair2].player2}
           four == side1 \cup side2
       IN
       /\ (/\ c.op = "confirm" /\ c.pc = "applyUpdPairs" /\ calls'[p] # c
           /\ Cardinality(four) = 4
           /\ pairs[m.pair1].rating = pairs[m.pair2].rating
           /\ \A i \in {m.pair1, m.pair2} :
                 [k \in {"rating", "gamesPlayed", "wins", "losses"} |->
                    c.pairsById[i][k]]
                 = [k \in {"rating", "gamesPlayed", "wins", "losses"} |->
                      pairs[i][k]])
          => /\ \A k \in {"rating", "gamesPlayed", "wins", "losses"} :
                  /\ pairs'[m.pair1][k] = After16(pairs[m.pair1], won1)[k]
                  /\ pairs'[m.pair2][k] = After16(pairs[m.pair2], ~won1)[k]
             /\ \A i \in 1..Len(pairs) : i \notin {m.pair1, m.pair2}
                                         => pairs'[i] = pairs[i]
             /\ players' = players
       /\ (/\ c.op = "confirm" /\ c.pc = "applyUpdPlayers" /\ calls'[p] # c
           /\ Cardinality(four) = 4
           /\ \A x, y \in four : players[x].rating = players[y].rating
           /\ \A x \in four : c.playersById[x] = players[x])
          => /\ \A x \in side1 : players'[x] = After16(players[x], won1)
             /\ \A x \in side2 : players'[x] = After16(players[x], ~won1)
             /\ \A x \in Players \ four : players'[x] = players[x]
             /\ pairs' = pairs
             /\ out'.resp = "200 confirmed"
    ]_vars

\* p3 and p4 have won against p1 and p2, all rated 1000 before
C17_Witness ==
  /\ out.op = "confirm" /\ out.resp = "200 confirmed"
  /\ matches[out.mid].status = "CONFIRMED"
  /\ \A x \in {"p1", "p2"} :
       players[x] = [rating |-> 984, gamesPlayed |-> 1, wins |-> 0, losses |-> 1]
  /\ \A x \in {"p3", "p4"} :
       players[x] = [rating |-> 1016, gamesPlayed |-> 1, wins |-> 1, losses |-> 0]
  /\ pairs[matches[out.mid].pair1].rating = 984
  /\ pairs[matches[out.mid].pair2].rating = 1016

\* C18: in every reachable state every Player record and every Pair record
\* has wins + losses = gamesPlayed, with all three non-negative.
C18_WinsPlusLossesIsGames ==
  /\ \A x \in Players :
       /\ players[x].wins + players[x].losses = players[x].gamesPlayed
       /\ players[x].wins >= 0 /\ players[x].losses >= 0
       /\ players[x].gamesPlayed >= 0
  /\ \A i \in 1..Len(pairs) :
       /\ pairs[i].wins + pairs[i].losses = pairs[i].gamesPlayed
       /\ pairs[i].wins >= 0 /\ pairs[i].losses >= 0
       /\ pairs[i].gamesPlayed >= 0

\* the ratings of a match have been written by two Confirm calls
C18_Witness ==
  /\ \E i \in MatchIds : applied[i] = 2
  /\ out.op = "confirm" /\ out.resp = "200 confirmed"
  /\ \E x \in Players : players[x].gamesPlayed >= 1
  /\ \E i \in 1..Len(pairs) : pairs[i].gamesPlayed >= 1

\* C19: when the confirming call finds fewer than 2 SetScores linked to the
\* match, a pair id missing, a pair record missing or incomplete, or a
\* player record missing, it ends there with an error response: no rating
\* or counter is written and the match stays as it is (CONFIRMED, as this
\* call wrote it).
C19_IncompleteDataNoRatingWrite ==
  [][\A p \in Procs :
       LET c == calls[p]
           linked == {i \in 1..Len(setScores) : setScores[i].match = c.mid}
           ids == {c.m.pair1, c.m.pair2}
           unresolved ==
             \/ \E i \in ids : i > Len(pairs)
             \/ \E i \in ids : i \in 1..Len(pairs) /\
                    \/ NoId \in {pairs[i].player1, pairs[i].player2}
                    \/ {pairs[i].player1, pairs[i].player2} \ Players # {}
       IN
       /\ (/\ c.op = "confirm" /\ c.pc = "listSets" /\ calls'[p] # c
           /\ (Cardinality(linked) < 2 \/ 0 \in ids))
          => /\ calls'[p].pc = "idle"
             /\ out'.resp \in {"500 match missing pair",
                               "500 match missing set scores"}
             /\ StoreUnchanged
       /\ (/\ c.op = "confirm" /\ c.pc = "applyListPairs" /\ calls'[p] # c
           /\ unresolved)
          => /\ calls'[p].pc = "idle"
             /\ out'.resp \in {"500 pair records not found",
                               "500 pair must have 2 players",
                               "500 player record not found"}
             /\ StoreUnchanged
    ]_vars

\* a confirming call has failed on a match without set scores
C19_Witness ==
  /\ out.op = "confirm" /\ out.resp = "500 match missing set scores"
  /\ matches[out.mid].status = "CONFIRMED"
  /\ applied[out.mid] = 0
  /\ \A x \in Players : players[x].rating = 1000 /\ players[x].gamesPlayed = 0
  /\ \A i \in 1..Len(pairs) : pairs[i].gamesPlayed = 0

\* C20: in every state reached by Report and create-pair calls that do not
\* overlap, no two Pair records have the same two players.
C20_OnePairPerPlayers ==
  \A i, j \in 1..Len(pairs) :
    i # j => {pairs[i].player1, pairs[i].player2}
             # {pairs[j].player1, pairs[j].player2}

\* create-pair has found the pair {p1, p2} under the ids in the other
\* order, after a Report of p1 with p2 was accepted
C20_Witness ==
  /\ out.op = "pairsCreate" /\ out.resp = "200 pair found"
  /\ out.opp1 = "p2" /\ out.opp2 = "p1"
  /\ pairs[out.mid].player1 = "p1" /\ pairs[out.mid].player2 = "p2"
  /\ Len(matches) = 1 /\ matches[1].pair1 = out.mid
  /\ Len(pairs) >= 2

\* the two players of pair record i of the table prs
Members(prs, i) == {prs[i].player1, prs[i].player2}

\* C21: a create-pair call for distinct players a, b that is not overlapped
\* by another call returns the one pair record whose players are {a, b},
\* whichever order the ids came in; when such a record existed before the
\* call, it answers created = false and creates no record.
C21_ResolveSymmetricIdempotent ==
  [][ (out'.op = "pairsCreate"
       /\ out'.resp \in {"200 pair found", "200 pair created"})
      => LET i == out'.mid
             ids == {out'.opp1, out'.opp2}
         IN /\ i \in 1..Len(pairs')
            /\ Members(pairs', i) = ids
            /\ \A j \in 1..Len(pairs') : Members(pairs', j) = ids => j = i
            /\ (\E j \in 1..Len(pairs) : Members(pairs, j) = ids)
                 => out'.resp = "200 pair found"
            /\ out'.resp = "200 pair found" => pairs' = pairs
            /\ \A j \in 1..Len(pairs) : pairs'[j] = pairs[j] ]_vars

\* create-pair(p2, p1) has returned the pair that create-pair(p1, p2) created
C21_Witness ==
  /\ out.op = "pairsCreate" /\ out.resp = "200 pair found"
  /\ out.opp1 = "p2" /\ out.opp2 = "p1"
  /\ matches = <<>> /\ Len(pairs) = 1
  /\ pairs[1].player1 = "p1" /\ pairs[1].player2 = "p2"
  /\ out.mid = 1

\* the responses of Report to a request it rejects in validation
ReportRejections ==
  { "400 ids required", "400 partner is yourself", "400 opponent twice",
    "400 provide 2 or 3 sets", "500 invalid set", "400 third set required",
    "400 match decided" }

\* C22: a Report rejected for a validation reason ends in the step that
\* rejects it and writes nothing: no Pair, Match or SetScore record is
\* created and no record is updated.
C22_RejectedReportWritesNothing ==
  [][ (out'.op = "report" /\ out'.resp \in ReportRejections)
      => /\ StoreUnchanged
         /\ started' = started + 1
         /\ \A p \in Procs : calls'[p].op # "report" ]_vars

\* a Report with two sets at 1-1 was rejected while Pair records exist
C22_Witness ==
  /\ out.op = "report" /\ out.resp = "400 third set required"
  /\ Len(pairs) >= 1 /\ matches = <<>> /\ setScores = <<>>

\* C23: with equal ratings a credited win yields exactly half of K:
\* eloDelta(r, r, 1, K) = K / 2.
C23_EqualRatingsHalfK ==
  (/\ calls[1].op = "eloDelta" /\ calls[1].pc # "call"
   /\ calls[1].sets[1] = calls[1].sets[2] /\ calls[1].sets[3] = 1)
  => out.resp = FDiv(FromInt(calls[1].sets[4]), FromInt(2))

\* eloDelta(1000, 1000, 1, 25) has returned 12.5 = 25 * 2^-1
C23_Witness ==
  /\ calls[1].op = "eloDelta" /\ calls[1].pc = "returned"
  /\ calls[1].sets = <<1000, 1000, 1, 25>>
  /\ out.resp = [FromInt(25) EXCEPT !.e = @ - 1]

\* C24: the delta of a win seen from A is the negated delta of the loss
\* seen from B: eloDelta(rA, rB, 1, K) = -eloDelta(rB, rA, 0, K).
C24_ZeroSumAcrossPerspectives ==
  (/\ calls[1].op = "eloDelta" /\ calls[1].pc = "both"
   /\ calls[1].sets[3] = 1)
  => out.resp = FNeg(calls[1].m)

\* C25: a match whose result has changed Player or Pair ratings has status
\* CONFIRMED, under every interleaving of Confirm with Reject or Dispute.
C25_AppliedMatchIsConfirmed ==
  \A i \in 1..Len(matches) :
    applied[i] >= 1 => matches[i].status = STATUS_CONFIRMED

\* C26: when no Reject or Dispute is issued and no store call fails, once
\* each of the two members of the opponent pair has completed a Confirm of
\* the match that returned success, the match is CONFIRMED and its ratings
\* are applied.  Checked at the step in which a member's Confirm returns
\* success while the other member's confirmation is in the store and the
\* other member has no request in flight (status PENDING_CONFIRMATION: that
\* Confirm returned "pending"; ratings applied: a Confirm returned
\* "confirmed").
C26_NoConfirmationLost ==
  [][ \A i \in MatchIds :
        (/\ i <= Len(matches)
         /\ out'.op = "confirm" /\ out'.mid = i
         /\ out'.resp \in {"200 pending", "200 confirmed"}
         /\ out'.me \in OppMembers(i)
         /\ Cardinality(OppMembers(i)) = 2
         /\ \A x \in OppMembers(i) \ {out'.me} :
              /\ x \in matches[i].confirmedBy
              /\ NotBusy(x)
              /\ matches[i].status = STATUS_PENDING \/ applied[i] >= 1)
        => /\ matches'[i].status = STATUS_CONFIRMED
           /\ applied'[i] >= 1 ]_vars

\* C27: whenever a Confirm returns success with status CONFIRMED, the rating
\* application of the match has completed exactly once; a Confirm re-invoked
\* after a failure between the status write and the rating writes completes
\* the application.
C27_ConfirmedMeansApplied ==
  [][ (/\ out'.op = "confirm"
       /\ out'.resp \in {"200 confirmed", "200 already confirmed"})
      => applied'[out'.mid] = 1 ]_vars

\* C28: on every match created by Report, a Confirm, Reject or Dispute sent
\* by the reporter or the reporter's partner (the members of Pair 1) is never
\* accepted: it is not taken past the opponent check, and on a pending match
\* it is answered with the not-an-opponent error.
C28_ReportingSideNeverOpponent ==
  [][\A op \in {"confirm", "reject", "dispute"}, me \in Players,
       mid \in MatchIds :
       (/\ Arrives(op, me, mid)
        /\ mid <= Len(matches)
        /\ me \in MyMembers(mid))
       => /\ calls' = calls
          /\ StoreUnchanged
          /\ matches[mid].status = STATUS_PENDING
               => out'.resp = "403 only opponent pair"]_vars

\* C29: pair resolution lists the pairs and creates the record in two store
\* calls, so two overlapping calls for the same two players can both find no
\* pair and both create one.  Whenever a create-pair call creates a record
\* for players that already have one, the list the call had read contained
\* no pair of these players and the other record was created after the
\* list was read.
C29_DuplicateOnlyByOverlap ==
  [][ \A p \in Procs :
        (/\ calls[p].op = "pairsCreate" /\ calls[p].pc = "createPair"
         /\ calls'[p].pc = "idle")
        => /\ pairs' = Append(pairs, pairs'[Len(pairs')])
           /\ Members(pairs', Len(pairs')) = {calls[p].opp1, calls[p].opp2}
           /\ FindPair(calls[p].pairsById, calls[p].opp1, calls[p].opp2) = 0
           /\ \A j \in 1..Len(pairs) :
                Members(pairs, j) = {calls[p].opp1, calls[p].opp2}
                => j > Len(calls[p].pairsById) ]_vars

\* two create-pair calls for p1 and p2 have both created a record
C29_Witness ==
  /\ out.op = "pairsCreate" /\ out.resp = "200 pair created"
  /\ {out.opp1, out.opp2} = {"p1", "p2"}
  /\ matches = <<>>
  /\ \E j \in 1..Len(pairs) :
       j # out.mid /\ Members(pairs, j) = Members(pairs, out.mid)

\* C30: a match with status CONFIRMED has both members of its opponent pair
\* in confirmedBy, and confirmedBy of any match holds members of its
\* opponent pair only.
C30_ConfirmedByBothOpponents ==
  \A i \in 1..Len(matches) :
    /\ matches[i].status = STATUS_CONFIRMED
         => OppMembers(i) \subseteq matches[i].confirmedBy
    /\ matches[i].confirmedBy \subseteq OppMembers(i)

\* the HTTP status of a response: the kind of error the caller sees
HttpStatus(resp) == SubSeq(resp, 1, 3)

\* the kinds used for upstream store failures (502, 504) and for the generic
\* internal error (e.status || 500)
NonValidationKinds == {"500", "502", "504"}

\* C31: a failure raised by input validation (an invalid or drawn set in
\* Report, the same player twice or a missing player in pair creation) is
\* answered with a kind that is neither the upstream kind nor the generic
\* internal-error kind.
C31_ValidationKindDistinct ==
  (/\ out.op \in {"report", "pairsCreate"}
   /\ out.resp \in ReportRejections \cup {"500 same player twice"})
  => HttpStatus(out.resp) \notin NonValidationKinds

\* the SetScores records linked to match i
SetsOf(i) == SelectSeq(setScores, LAMBDA r : r.match = i)

\* C32: every Match record whose Report is no longer in flight, also one
\* whose Report failed between creating the Match and creating its
\* SetScores, has 2 or 3 linked SetScores and each passes the validator.
C32_MatchHasItsSetScores ==
  \A i \in 1..Len(matches) :
    (\A p \in Procs : ~(calls[p].op = "report" /\ calls[p].mid = i))
    => /\ Len(SetsOf(i)) \in {2, 3}
       /\ \A k \in 1..Len(SetsOf(i)) :
            validateSetGames(SetsOf(i)[k].p1, SetsOf(i)[k].p2) = "ok"

\* C33: on every route the payload is verified before it is parsed and
\* before any store call: a handler that has parsed the payload or called the
\* store holds a payload that is present and correctly signed, and a request
\* with a missing or forged payload is answered 400 or 401 with no store call
\* and no parsed data.
C33_VerifiedBeforeParseAndStore ==
  /\ \A p \in Procs :
       (calls[p].data # Unparsed \/ calls[p].reads > 0 \/ calls[p].writes > 0)
         => calls[p].initData.present /\ isValid(calls[p].initData)
  /\ (out.op # "none" /\ ~(out.initData.present /\ isValid(out.initData)))
       => /\ out.resp = IF out.initData.present THEN "401 Invalid initData"
                        ELSE "400 initData is required"
          /\ out.reads = 0 /\ out.writes = 0 /\ out.data = Unparsed

\* a forged payload was refused on a route that looks the caller up
C33_Witness ==
  /\ out.op = "report"
  /\ out.initData.present /\ ~isValid(out.initData)
  /\ out.resp = "401 Invalid initData"

\* C34: at most one Player record exists per Telegram user id, also when two
\* Join calls of the same identity interleave.
C34_OnePlayerPerTelegramId ==
  \A i, j \in 1..Len(players) :
    players[i].telegramId = players[j].telegramId => i = j

\* C35: Report, Confirm, Reject and Dispute called with a verified identity
\* that has no Player record are answered 403 You must Join by the step that
\* looked the caller up, and the handler has written nothing to the store.
C35_MustJoinFirst ==
  [][\A p \in Procs :
       (/\ calls[p].pc = "findPlayer"
        /\ calls[p].op \in WriteRoutes
        /\ calls'[p] # calls[p]
        /\ FindByTelegram(players, calls[p].data.user.id) = 0)
         => /\ out'.op = calls[p].op
            /\ out'.resp = MustJoin(calls[p].op)
            /\ HttpStatus(out'.resp) = "403"
            /\ out'.writes = 0
            /\ calls'[p].pc = "idle"
            /\ StoreUnchanged]_vars

\* a Dispute of a user who never joined was refused
C35_Witness ==
  /\ out.op = "dispute"
  /\ out.initData.user = 102
  /\ out.resp = "403 You must Join"

\* the matches whose rating application has written the Pairs table
AppliedMatches == {m \in 1..Len(matches) : applied[m] > 0}

\* C36: when no request is in flight and no match was applied twice, the
\* gamesPlayed of every Pair and of every Player is the number of applied
\* matches it took part in.
C36_CountersNotLost ==
  ((\A p \in Procs : calls[p].pc = "idle") /\ (\A m \in DOMAIN applied : applied[m] <= 1))
    => /\ \A i \in 1..Len(pairs) :
            pairs[i].gamesPlayed =
              Cardinality({m \in AppliedMatches :
                             i \in {matches[m].pair1, matches[m].pair2}})
       /\ \A x \in Players :
            players[x].gamesPlayed =
              Cardinality({m \in AppliedMatches :
                             x \in MyMembers(m) \cup OppMembers(m)})

\* the ids of the winning and of the losing pair of the call c, and their
\* members, from the records the call loaded
WinnerPairOf(c) == IF pair1Won(c.ss) THEN c.m.pair1 ELSE c.m.pair2
LoserPairOf(c) == IF pair1Won(c.ss) THEN c.m.pair2 ELSE c.m.pair1
MembersOf(c, i) == {c.pairsById[i].player1, c.pairsById[i].player2}

\* C37: the Pairs write of a rating application does not lower the stored
\* rating of the winning pair nor raise that of the losing pair; its Players
\* write does not lower the stored rating of a winning player nor raise that
\* of a losing player, and changes the ratings of both members of a side by
\* the same amount.
C37_WinnersUpLosersDown ==
  [][\A p \in Procs :
       LET c == calls[p] IN
       /\ (c.pc = "applyUpdPairs" /\ calls'[p].pc = "applyUpdPlayers")
            => /\ pairs'[WinnerPairOf(c)].rating >= pairs[WinnerPairOf(c)].rating
               /\ pairs'[LoserPairOf(c)].rating <= pairs[LoserPairOf(c)].rating
       /\ (c.pc = "applyUpdPlayers" /\ players' # players)
            => /\ \A x \in MembersOf(c, WinnerPairOf(c)) :
                    players'[x].rating >= players[x].rating
               /\ \A x \in MembersOf(c, LoserPairOf(c)) :
                    players'[x].rating <= players[x].rating
               /\ \A i \in {c.m.pair1, c.m.pair2} :
                    \A x, y \in MembersOf(c, i) :
                      players'[x].rating - players[x].rating =
                        players'[y].rating - players[y].rating]_vars

\* C38: a create-pair request naming the same player twice, or with a
\* missing player id, is answered with an error by the step it arrives in,
\* which leaves the Pairs table as it was; no such request ever gets to the
\* search or to the creation of a pair.
C38_BadPairRefused ==
  [][/\ \A p \in Procs :
          calls'[p].op = "pairsCreate"
            => /\ NoId \notin {calls'[p].opp1, calls'[p].opp2}
               /\ calls'[p].opp1 # calls'[p].opp2
     /\ (/\ started' = started + 1
         /\ out'.op = "pairsCreate"
         /\ (out'.opp1 = out'.opp2 \/ NoId \in {out'.opp1, out'.opp2}))
          => /\ HttpStatus(out'.resp) \in {"400", "500"}
             /\ pairs' = pairs]_vars

\* the pair of p1 with p1 was refused while the store held a pair
C38_Witness ==
  /\ out.op = "pairsCreate" /\ out.opp1 = "p1" /\ out.opp2 = "p1"
  /\ out.resp = "500 same player twice"
  /\ Len(pairs) > 0

\* C39: with one request at a time, the search of a create-pair call that
\* finds a Pair of the two players answers with that Pair and changes no Pair
\* record; when none exists the call appends exactly one Pair for the two
\* players, rated Math.round of the mean of their ratings (the default rating
\* for a player missing from the listing) with all counters 0.
C39_ResolveCreatesOneSeededPair ==
  [][\A p \in Procs :
       LET c == calls[p]
           i == FindPair(pairs, c.opp1, c.opp2)
           r(x) == IF x \in Players THEN players[x].rating ELSE DEFAULT_RATING
       IN
       /\ (c.op = "pairsCreate" /\ c.pc = "listPairs" /\ calls'[p] # c)
            => /\ pairs' = pairs
               /\ IF i # 0
                  THEN /\ out'.resp = "200 pair found"
                       /\ out'.mid = i
                       /\ {pairs[i].player1, pairs[i].player2} = {c.opp1, c.opp2}
                  ELSE calls'[p].pc = "createPair"
       /\ (c.op = "pairsCreate" /\ c.pc = "createPair" /\ calls'[p] # c)
            => /\ i = 0
               /\ Len(pairs') = Len(pairs) + 1
               /\ SubSeq(pairs', 1, Len(pairs)) = pairs
               /\ pairs'[Len(pairs')] =
                    [player1 |-> c.opp1, player2 |-> c.opp2,
                     rating |-> (r(c.opp1) + r(c.opp2) + 1) \div 2,
                     gamesPlayed |-> 0, wins |-> 0, losses |-> 0]
               /\ out'.resp = "200 pair created"
               /\ out'.mid = Len(pairs')]_vars

\* p1, rated 1031 after two wins, was paired with an unlisted player: the
\* mean 1015.5 is rounded up
C39_Witness ==
  /\ out.op = "pairsCreate" /\ out.resp = "200 pair created"
  /\ out.mid \in 1..Len(pairs)
  /\ pairs[out.mid].player2 = UnlistedPlayer
  /\ players["p1"].rating = 1031
  /\ pairs[out.mid].rating = 1016

\* C40: no step of the match listing changes the store, and every element
\* of its response carries exactly the SetScores of its match in ascending
\* setNo, the members of its listed pair 2 as opponentPlayerIds, the ids of
\* confirmedBy, and null for a pair or a player that the listings did not
\* return.
C40_ListingIsProjection ==
  [][/\ (\E p \in Procs : calls[p].op = "matches" \/ calls'[p].op = "matches")
          => StoreUnchanged
     /\ (out'.op = "matches" /\ out' # out)
          => \A k \in 1..Len(out'.matches) :
               LET e == out'.matches[k]
                   ss == e.setScores
                   po(x) == IF x \in out'.listedPlayers THEN players[x] ELSE Null
                   pr(i) == IF i \in out'.listedPairs
                            THEN [id |-> i, player1Obj |-> po(pairs[i].player1),
                                  player2Obj |-> po(pairs[i].player2)] @@ pairs[i]
                            ELSE Null
               IN /\ e.id = k /\ k <= Len(matches)
                  /\ e.status = matches[k].status
                  /\ \A j \in 1..Len(ss) : ss[j].match = k
                  /\ \A j \in 1..(Len(ss) - 1) : ss[j].setNo <= ss[j + 1].setNo
                  /\ {ss[j] : j \in 1..Len(ss)} =
                       {setScores[j] : j \in {n \in 1..Len(setScores) :
                                                setScores[n].match = k}}
                  /\ Len(ss) = Cardinality({n \in 1..Len(setScores) :
                                              setScores[n].match = k})
                  /\ e.pair1Obj = pr(matches[k].pair1)
                  /\ e.pair2Obj = pr(matches[k].pair2)
                  /\ e.opponentPlayerIds =
                       IF matches[k].pair2 \in out'.listedPairs
                       THEN OppMembers(k) \ {NoId} ELSE {}
                  /\ e.confirmedBy = matches[k].confirmedBy \ {NoId}]_vars

\* a listing that got the set scores in descending order, could not expand
\* pair 2 of the third match, and found one member of its pair 1 missing
C40_Witness ==
  /\ out.op = "matches"
  /\ Len(out.matches) = 3
  /\ Len(out.matches[3].setScores) = 3
  /\ out.matches[3].pair2Obj = Null
  /\ out.matches[3].pair1Obj # Null
  /\ out.matches[3].pair1Obj.player1Obj = Null
  /\ out.matches[3].pair1Obj.player2Obj # Null
  /\ out.matches[1].opponentPlayerIds = {"p3", "p4"}
  /\ matches[2].status = STATUS_CONFIRMED

====
